---- MODULE Spec2Model ----
(***************************************************************************)
(* ARIA message pipeline (src/ariaCorrelator.js): the message counter, the *)
(* token statistics accumulator, the category scorer with its inertia, the *)
(* pair engine and the decay engine, over the tables of migrations 001 and *)
(* 003.                                                                    *)
(*                                                                         *)
(* Arithmetic.  The program computes strengths, scores and variances in    *)
(* IEEE doubles.  Here every such quantity is a fixed-point integer in     *)
(* units of 1/Unit (1.0 = Unit = 10000), products and quotients truncated. *)
(* Counters and message indexes are plain integers.                        *)
(***************************************************************************)
EXTENDS Integers, Sequences, FiniteSets, TLC

\* 1.0 in fixed point.
Unit == 100 * 100

\* SQL NULL / JavaScript null.
Null == "null"

\* last_message_index integer DEFAULT NULL (no message index is negative).
NullIndex == 0 - 1

Max(a, b) == IF a >= b THEN a ELSE b

\* F applied to the value of e, e evaluated once (sequencing of the steps of
\* a handler: each step works on the result of the step before).
Bind(e, F(_)) == CHOOSE r \in {F(x) : x \in {e}} : TRUE

Min(a, b) == IF a <= b THEN a ELSE b

\* a / b in fixed point, for integers a, b > 0 or fixed-point a, b.
Ratio(a, b) == (a * Unit) \div b

(***************************************************************************)
(* CONFIG                                                                  *)
(***************************************************************************)
SHORT_MAX == 3000

MEDIUM_MAX == 8000

DECAY_MIN == 100

\* CONFIG.DECAY[tier].interval
DecayInterval(tier) ==
    CASE tier = "short" -> 50
      [] tier = "medium" -> 200
      [] tier = "long" -> 1000

\* CONFIG.DECAY[tier].rate
DecayRate(tier) ==
    CASE tier = "short" -> 1500
      [] tier = "medium" -> 500
      [] tier = "long" -> 100

REINFORCEMENT_base == 200

REINFORCEMENT_maxScore == 10000

ADJACENCY_WINDOW == 2

MIN_OCCURRENCES_FOR_CATEGORY == 2

CATEGORY_THRESHOLD == 1500

INERTIA_THRESHOLD == 3

Categories == {"stable", "transition", "modifier", "structural", "unclassified"}

\* A faulty modifier that treats every category as 'unclassified'.
PromotionModifierIgnoresCategory(category) == (8 * Unit) \div 10

\* CONFIG.PROMOTION_MODIFIERS[category] || 1
PromotionModifier(category) ==
    CASE category = "stable" -> 15000
      [] category = "structural" -> 6000
      [] category = "transition" -> 10000
      [] category = "modifier" -> 10000
      [] category = "unclassified" -> 8000
      [] OTHER -> Unit

TEMPORAL_MARKERS ==
    {"then", "now", "before", "after", "when", "while", "during", "until",
     "since", "already", "soon", "later", "earlier", "yesterday", "today",
     "tomorrow", "always", "never", "once", "first", "last", "next",
     "finally", "eventually", "immediately", "suddenly", "gradually",
     "recently", "formerly", "meanwhile"}

CONTRAST_PAIRS ==
    << <<"good", "bad">>, <<"big", "small">>, <<"hot", "cold">>, <<"fast", "slow">>,
       <<"old", "new">>, <<"high", "low">>, <<"light", "dark">>, <<"happy", "sad">>,
       <<"strong", "weak">>, <<"hard", "soft">>, <<"loud", "quiet">>, <<"clean", "dirty">>,
       <<"rich", "poor">>, <<"safe", "dangerous">>, <<"full", "empty">>, <<"long", "short">>,
       <<"thick", "thin">>, <<"wide", "narrow">>, <<"deep", "shallow">>, <<"young", "old">> >>

\* CONTRAST_LOOKUP.has(token): the Map is filled pair by pair, both directions.
ContrastHas(token) ==
    \E k \in 1..Len(CONTRAST_PAIRS) : token \in {CONTRAST_PAIRS[k][1], CONTRAST_PAIRS[k][2]}

\* CONTRAST_LOOKUP.get(token): a later set() of the same key overwrites the earlier.
ContrastGet(token) ==
    LET ks == {k \in 1..Len(CONTRAST_PAIRS) :
                 token \in {CONTRAST_PAIRS[k][1], CONTRAST_PAIRS[k][2]}}
        k == CHOOSE x \in ks : \A y \in ks : y <= x
    IN  IF CONTRAST_PAIRS[k][1] = token /\ CONTRAST_PAIRS[k][2] /= token
          THEN CONTRAST_PAIRS[k][2]
          ELSE CONTRAST_PAIRS[k][1]

(***************************************************************************)
(* Words.  A message text is a sequence of raw words separated by spaces   *)
(* (the empty sequence is the empty string).  A raw word is a token in     *)
(* lower case, a capitalised token, a one-letter word or punctuation.      *)
(***************************************************************************)
\* The tokens of the model, in the order of JavaScript's default sort
\* (code-unit order of the lower-case strings).
TokenOrder == <<"bad", "good", "goodness", "morning", "now">>

Tokens == {TokenOrder[k] : k \in 1..Len(TokenOrder)}

Rank(token) == CHOOSE k \in 1..Len(TokenOrder) : TokenOrder[k] = token

\* String.prototype.toLowerCase on the raw words of the model.
toLowerCase(word) ==
    CASE word = "Good" -> "good"
      [] word = "BAD" -> "bad"
      [] OTHER -> word

\* .replace(/[^\w\s'-]/g, ' '): a punctuation-only word becomes blank.
Punctuation == {"!", "?!"}

stripPunctuation(word) == IF word \in Punctuation THEN "" ELSE word

RECURSIVE SelectTokens(_)
SelectTokens(words) ==
    IF words = <<>> THEN <<>>
    ELSE LET w == stripPunctuation(toLowerCase(Head(words)))
         IN  IF Len(w) >= 2 THEN <<w>> \o SelectTokens(Tail(words))
                            ELSE SelectTokens(Tail(words))

tokenizeMessage(text) == SelectTokens(text)

\* [a, b].sort(): ascending code-unit order.
SortPair(a, b) == IF Rank(a) <= Rank(b) THEN <<a, b>> ELSE <<b, a>>

generatePatternKey(word1, word2) ==
    LET sorted == SortPair(toLowerCase(word1), toLowerCase(word2))
    IN  sorted[1] \o "_" \o sorted[2]

getTierForScore(score) ==
    IF score >= MEDIUM_MAX THEN "long"
    ELSE IF score >= SHORT_MAX THEN "medium"
    ELSE "short"

clamp(value) == Max(0, Min(Unit, value))

(***************************************************************************)
(* Rows.  aria_token_stats, aria_global_stats, aria_word_pairs.            *)
(***************************************************************************)
\* newStats of getOrCreateTokenStats, completed by the column defaults of
\* aria_token_stats (pending_category NULL, pending_count 0,
\* last_message_index NULL).
NewTokenStats(token) ==
    [token |-> token,
     total_occurrences |-> 0,
     context_count |-> 0,
     unique_adjacency_count |-> 0,
     positional_variance |-> 0,
     bridge_count |-> 0,
     temporal_adj_count |-> 0,
     adjacent_to_stable |-> 0,
     contrast_pair_count |-> 0,
     standalone_count |-> 0,
     stability_score |-> 0,
     transition_score |-> 0,
     dependency_score |-> 0,
     structural_score |-> 0,
     category |-> "unclassified",
     pending_category |-> Null,
     pending_count |-> 0,
     last_message_index |-> NullIndex]

\* The row inserted by migration 003: (0, 0, 1, 0).
InitialGlobalStats ==
    [total_contexts_seen |-> 0,
     total_adj_windows |-> 0,
     max_positional_variance |-> Unit,
     total_tokens_seen |-> 0]

RECURSIVE SumSeq(_)
SumSeq(s) ==
    IF s = <<>> THEN 0
    ELSE IF Len(s) = 1 THEN s[1]
    ELSE SumSeq(SubSeq(s, 1, Len(s) \div 2)) + SumSeq(SubSeq(s, (Len(s) \div 2) + 1, Len(s)))

\* The rows `.limit(100)` returns: all of them while there are at most 100.
POSITION_LIMIT == 100

LimitedPositions(values) ==
    IF Len(values) <= POSITION_LIMIT THEN values ELSE SubSeq(values, 1, POSITION_LIMIT)

\* mean = sum / n; variance = sum((v - mean)^2) / n = (n*sum(v^2) - sum(v)^2) / n^2
calculatePositionalVariance(positions) ==
    LET values == LimitedPositions(positions)
        n == Len(values)
        s1 == SumSeq(values)
        s2 == SumSeq([k \in 1..n |-> values[k] * values[k]])
    IN  IF n < 2 THEN 0 ELSE (Unit * (n * s2 - s1 * s1)) \div (n * n)

VarianceRatio(stats, globalStats) ==
    (stats.positional_variance * Unit) \div Max(Unit, globalStats.max_positional_variance)

calculateStabilityScore(stats, globalStats) ==
    LET contextRatio == Ratio(stats.context_count, Max(1, globalStats.total_contexts_seen))
        adjRatio == Ratio(stats.unique_adjacency_count, Max(1, globalStats.total_adj_windows))
    IN  clamp(contextRatio + adjRatio - VarianceRatio(stats, globalStats))

calculateTransitionScore(stats, globalStats) ==
    LET bridgeRatio == Ratio(stats.bridge_count, Max(1, stats.total_occurrences))
        temporalRatio == Ratio(stats.temporal_adj_count, Max(1, stats.total_occurrences))
    IN  clamp(bridgeRatio + temporalRatio + VarianceRatio(stats, globalStats))

calculateDependencyScore(stats) ==
    LET stableRatio == Ratio(stats.adjacent_to_stable, Max(1, stats.total_occurrences))
        contrastRatio == Ratio(stats.contrast_pair_count, Max(1, stats.total_occurrences))
        standaloneRatio == Ratio(stats.standalone_count, Max(1, stats.total_occurrences))
    IN  clamp(stableRatio + contrastRatio - standaloneRatio)

calculateStructuralScore(stats, globalStats) ==
    LET occurrenceRatio == Ratio(stats.total_occurrences, Max(1, globalStats.total_contexts_seen))
        temporalRatio == Ratio(stats.temporal_adj_count, Max(1, stats.total_occurrences))
        adjRatio == Ratio(stats.unique_adjacency_count, Max(1, globalStats.total_adj_windows))
        standaloneRatio == Ratio(stats.standalone_count, Max(1, stats.total_occurrences))
    IN  clamp(occurrenceRatio + temporalRatio - adjRatio - standaloneRatio
              - VarianceRatio(stats, globalStats))

\* A faulty assignment that tests 'structural' before the other categories.
assignCategoryStructuralFirst(stats) ==
    LET maxScore == Max(Max(stats.stability_score, stats.transition_score),
                        Max(stats.dependency_score, stats.structural_score))
    IN  IF stats.total_occurrences < MIN_OCCURRENCES_FOR_CATEGORY THEN "unclassified"
        ELSE IF maxScore <= CATEGORY_THRESHOLD THEN "unclassified"
        ELSE IF stats.structural_score = maxScore THEN "structural"
        ELSE IF stats.stability_score = maxScore THEN "stable"
        ELSE IF stats.transition_score = maxScore THEN "transition"
        ELSE "modifier"

assignCategory(stats) ==
    LET maxScore == Max(Max(stats.stability_score, stats.transition_score),
                        Max(stats.dependency_score, stats.structural_score))
    IN  IF stats.total_occurrences < MIN_OCCURRENCES_FOR_CATEGORY THEN "unclassified"
        ELSE IF maxScore <= CATEGORY_THRESHOLD THEN "unclassified"
        ELSE IF stats.stability_score = maxScore /\ stats.stability_score > CATEGORY_THRESHOLD
          THEN "stable"
        ELSE IF stats.transition_score = maxScore /\ stats.transition_score > CATEGORY_THRESHOLD
          THEN "transition"
        ELSE IF stats.dependency_score = maxScore /\ stats.dependency_score > CATEGORY_THRESHOLD
          THEN "modifier"
        ELSE IF stats.structural_score = maxScore /\ stats.structural_score > CATEGORY_THRESHOLD
          THEN "structural"
        ELSE "unclassified"

(***************************************************************************)
(* The store: the tables' rows and the in-core global-stats cache.         *)
(*   counter    aria_message_counter.current_index                         *)
(*   global     the aria_global_stats row                                  *)
(*   cache      globalStatsCache: <<>> (null) or <<row>>                   *)
(*   tokens     aria_token_stats, by token                                 *)
(*   positions  aria_token_positions, by token, in insertion order         *)
(*   pairs      aria_word_pairs, in insertion order; a row's id is its     *)
(*              place in the sequence (rows are never deleted)             *)
(*   purgatory  aria_purgatory rows, in insertion order                    *)
(***************************************************************************)
EmptyStore ==
    [counter |-> 0,
     global |-> InitialGlobalStats,
     cache |-> <<>>,
     tokens |-> <<>>,
     positions |-> <<>>,
     pairs |-> <<>>,
     purgatory |-> <<>>]

Put(f, k, v) == [x \in (DOMAIN f) \cup {k} |-> IF x = k THEN v ELSE f[x]]

Range(s) == {s[k] : k \in DOMAIN s}

\* rpc('aria_increment_message_counter'), and on its error the select of
\* current_index followed by the update to the value read plus one.
\* A faulty fallback that returns the new index without writing it.
getAndIncrementMessageIndexNoWrite(st, rpcError, tableError) ==
    IF rpcError
      THEN [st |-> st, index |-> IF tableError THEN 0 + 1 ELSE st.counter + 1]
      ELSE [st |-> [st EXCEPT !.counter = @ + 1], index |-> st.counter + 1]

\* rpcError: the RPC answers with an error and the fallback runs.  tableError:
\* the fallback's select and update fail as well; their errors are not looked
\* at, the select then has no data and (counter?.current_index || 0) is 0.
getAndIncrementMessageIndex(st, rpcError, tableError) ==
    IF rpcError
      THEN IF tableError
             THEN [st |-> st, index |-> 0 + 1]
             ELSE LET newIndex == st.counter + 1
                  IN  [st |-> [st EXCEPT !.counter = newIndex], index |-> newIndex]
      ELSE [st |-> [st EXCEPT !.counter = @ + 1], index |-> st.counter + 1]

\* The cache answers while it is set and younger than 5 seconds (expired says
\* that 5 seconds have passed); otherwise the row is read and cached.
getGlobalStats(st, expired) ==
    IF st.cache /= <<>> /\ ~expired
      THEN [st |-> st, data |-> st.cache[1]]
      ELSE [st |-> [st EXCEPT !.cache = <<st.global>>], data |-> st.global]

getOrCreateTokenStats(st, token) ==
    IF token \in DOMAIN st.tokens
      THEN st
      ELSE [st EXCEPT !.tokens = Put(@, token, NewTokenStats(token)),
                      !.positions = Put(@, token, <<>>)]

\* getOrCreateTokenStats for every token of the message.
CreateAll(st, tokens) ==
    [st EXCEPT
       !.tokens = [t \in (DOMAIN @) \cup Range(tokens) |->
                     IF t \in DOMAIN @ THEN @[t] ELSE NewTokenStats(t)],
       !.positions = [t \in (DOMAIN @) \cup Range(tokens) |->
                        IF t \in DOMAIN @ THEN @[t] ELSE <<>>]]

\* The tokens within ADJACENCY_WINDOW of occurrence k (1-based), k excluded.
Neighbors(tokens, k) ==
    {tokens[j] : j \in (Max(1, k - ADJACENCY_WINDOW)..Min(Len(tokens), k + ADJACENCY_WINDOW)) \ {k}}

\* A faulty count that sees only the first occurrence of a token.
OccurrencesFirstOnly(tokens, token) ==
    {k \in 1..Len(tokens) : tokens[k] = token /\ \A j \in 1..(k - 1) : tokens[j] /= token}

Occurrences(tokens, token) == {k \in 1..Len(tokens) : tokens[k] = token}

\* The zero-based positions of token in the message, in message order.
RECURSIVE PositionsOf(_, _, _)
PositionsOf(tokens, token, k) ==
    IF k > Len(tokens) THEN <<>>
    ELSE (IF tokens[k] = token THEN <<k - 1>> ELSE <<>>) \o PositionsOf(tokens, token, k + 1)

\* A faulty batched update that stores the adjacency of the message alone.
TokenStatsUpdateNoHighWater(stats, tokens, messageIndex, isStandalone, stableTokensInMessage) ==
    LET token == stats.token
        occ == Occurrences(tokens, token)
        adjacency == UNION {Neighbors(tokens, k) : k \in occ}
        bridge == {k \in occ : /\ k > 1
                               /\ k < Len(tokens)
                               /\ tokens[k - 1] \in stableTokensInMessage
                               /\ tokens[k + 1] \in stableTokensInMessage}
    IN  [stats EXCEPT
           !.total_occurrences = @ + Cardinality(occ),
           !.context_count = @ + (IF stats.last_message_index /= messageIndex THEN 1 ELSE 0),
           !.unique_adjacency_count = Cardinality(adjacency),
           !.bridge_count = @ + Cardinality(bridge),
           !.temporal_adj_count = @ + (IF adjacency \cap TEMPORAL_MARKERS /= {} THEN 1 ELSE 0),
           !.adjacent_to_stable = @ + (IF adjacency \cap stableTokensInMessage /= {} THEN 1 ELSE 0),
           !.contrast_pair_count =
               @ + (IF ContrastHas(token) /\ ContrastGet(token) \in Range(tokens) THEN 1 ELSE 0),
           !.standalone_count = @ + (IF isStandalone THEN 1 ELSE 0),
           !.last_message_index = messageIndex]

\* The batched update of one token's row.
TokenStatsUpdate(stats, tokens, messageIndex, isStandalone, stableTokensInMessage) ==
    LET token == stats.token
        occ == Occurrences(tokens, token)
        adjacency == UNION {Neighbors(tokens, k) : k \in occ}
        bridge == {k \in occ : /\ k > 1
                               /\ k < Len(tokens)
                               /\ tokens[k - 1] \in stableTokensInMessage
                               /\ tokens[k + 1] \in stableTokensInMessage}
    IN  [stats EXCEPT
           !.total_occurrences = @ + Cardinality(occ),
           !.context_count = @ + (IF stats.last_message_index /= messageIndex THEN 1 ELSE 0),
           !.unique_adjacency_count = Max(@, Cardinality(adjacency)),
           !.bridge_count = @ + Cardinality(bridge),
           !.temporal_adj_count = @ + (IF adjacency \cap TEMPORAL_MARKERS /= {} THEN 1 ELSE 0),
           !.adjacent_to_stable = @ + (IF adjacency \cap stableTokensInMessage /= {} THEN 1 ELSE 0),
           !.contrast_pair_count =
               @ + (IF ContrastHas(token) /\ ContrastGet(token) \in Range(tokens) THEN 1 ELSE 0),
           !.standalone_count = @ + (IF isStandalone THEN 1 ELSE 0),
           !.last_message_index = messageIndex]

\* The first pass of processTokenStatistics: the totals as getGlobalStats
\* returns them and the row of every token of the message (currentStats).
readTokenStatistics(st, tokens, expired) ==
    LET g == getGlobalStats(st, expired)
        st1 == CreateAll(g.st, tokens)
    IN  [st |-> st1,
         globalStats |-> g.data,
         currentStats |-> [t \in Range(tokens) |-> st1.tokens[t]]]

\* updateTokenStats: the columns named in updates are written, the others
\* of the row stay as they are in the table.
updateTokenStats(row, updates) ==
    [row EXCEPT
       !.total_occurrences = updates.total_occurrences,
       !.context_count = updates.context_count,
       !.unique_adjacency_count = updates.unique_adjacency_count,
       !.bridge_count = updates.bridge_count,
       !.temporal_adj_count = updates.temporal_adj_count,
       !.adjacent_to_stable = updates.adjacent_to_stable,
       !.contrast_pair_count = updates.contrast_pair_count,
       !.standalone_count = updates.standalone_count,
       !.last_message_index = updates.last_message_index]

\* The rest of processTokenStatistics: the positions, the batched update of
\* every token from the rows read in the first pass, and the totals from the
\* totals read at its start.
writeTokenStatistics(st, tokens, messageIndex, isStandalone, globalStats, currentStats) ==
    LET tokenSet == Range(tokens)
        stableTokensInMessage == {t \in tokenSet : currentStats[t].category = "stable"}
    IN  [st EXCEPT
           !.positions = [t \in DOMAIN @ |-> @[t] \o PositionsOf(tokens, t, 1)],
           !.tokens = [t \in DOMAIN @ |->
                         IF t \in tokenSet
                           THEN updateTokenStats(
                                  @[t],
                                  TokenStatsUpdate(currentStats[t], tokens, messageIndex,
                                                   isStandalone, stableTokensInMessage))
                           ELSE @[t]],
           !.global = [@ EXCEPT
                         !.total_contexts_seen = globalStats.total_contexts_seen + 1,
                         !.total_adj_windows =
                             globalStats.total_adj_windows + Max(0, Len(tokens) - 1),
                         !.total_tokens_seen = globalStats.total_tokens_seen + Len(tokens)]]

processTokenStatistics(st, tokens, messageIndex, isStandalone, expired) ==
    LET r == readTokenStatistics(st, tokens, expired)
    IN  writeTokenStatistics(r.st, tokens, messageIndex, isStandalone, r.globalStats,
                             r.currentStats)

RECURSIVE MaxOf(_)
MaxOf(S) ==
    IF S = {} THEN 0
    ELSE LET x == CHOOSE y \in S : TRUE IN Max(x, MaxOf(S \ {x}))

\* The row of a token with this tick's variance and the four scores computed
\* from it (second pass, before the category is decided).
ScoredStats(stats, variance, globalStats) ==
    LET withVariance == [stats EXCEPT !.positional_variance = variance]
    IN  [withVariance EXCEPT
           !.stability_score = calculateStabilityScore(withVariance, globalStats),
           !.transition_score = calculateTransitionScore(withVariance, globalStats),
           !.dependency_score = calculateDependencyScore(withVariance),
           !.structural_score = calculateStructuralScore(withVariance, globalStats)]

\* CATEGORY INERTIA: the category, pending category and pending count written
\* for a row whose candidate category is newCategory.
\* A faulty inertia that switches on the second win.
CategoryInertiaTwoWins(stats, newCategory) ==
    IF newCategory /= stats.category
      THEN IF newCategory = stats.pending_category
             THEN IF stats.pending_count + 1 >= INERTIA_THRESHOLD - 1
                    THEN [category |-> newCategory, pending_category |-> Null,
                          pending_count |-> 0]
                    ELSE [category |-> stats.category,
                          pending_category |-> stats.pending_category,
                          pending_count |-> stats.pending_count + 1]
             ELSE [category |-> stats.category, pending_category |-> newCategory,
                   pending_count |-> 1]
      ELSE [category |-> stats.category, pending_category |-> Null, pending_count |-> 0]

\* A faulty inertia that switches without clearing the pending fields.
CategoryInertiaKeepsPending(stats, newCategory) ==
    IF newCategory /= stats.category
      THEN IF newCategory = stats.pending_category
             THEN IF stats.pending_count + 1 >= INERTIA_THRESHOLD
                    THEN [category |-> newCategory,
                          pending_category |-> stats.pending_category,
                          pending_count |-> stats.pending_count + 1]
                    ELSE [category |-> stats.category,
                          pending_category |-> stats.pending_category,
                          pending_count |-> stats.pending_count + 1]
             ELSE [category |-> stats.category, pending_category |-> newCategory,
                   pending_count |-> 1]
      ELSE [category |-> stats.category, pending_category |-> Null, pending_count |-> 0]

\* CATEGORY INERTIA: finalCategory, pendingCategory and pendingCount.
CategoryInertia(stats, newCategory) ==
    IF newCategory /= stats.category
      THEN IF newCategory = stats.pending_category
             THEN IF stats.pending_count + 1 >= INERTIA_THRESHOLD
                    THEN [category |-> newCategory, pending_category |-> Null,
                          pending_count |-> 0]
                    ELSE [category |-> stats.category,
                          pending_category |-> stats.pending_category,
                          pending_count |-> stats.pending_count + 1]
             ELSE [category |-> stats.category, pending_category |-> newCategory,
                   pending_count |-> 1]
      ELSE [category |-> stats.category, pending_category |-> Null, pending_count |-> 0]

\* Pass A's varianceMap: the variance of every token of the message.
VarianceMap(st, tokens) ==
    [t \in Range(tokens) |-> calculatePositionalVariance(st.positions[t])]

\* The global stats the second pass computes with: the first pass's maximum
\* replaces max_positional_variance when it exceeds the value read.
ScoringGlobalStats(globalStats, varianceMap) ==
    LET maxVarianceFound ==
            Max(globalStats.max_positional_variance,
                MaxOf({varianceMap[t] : t \in DOMAIN varianceMap}))
    IN  [globalStats EXCEPT !.max_positional_variance = maxVarianceFound]

\* calculateScoresAndCategories from the write of the raised maximum on: the
\* globalStats it read and the varianceMap of its first pass are given.
ScoresFromPassA(st, tokens, globalStats, varianceMap) ==
    LET tokenSet == Range(tokens)
        scoringStats == ScoringGlobalStats(globalStats, varianceMap)
        maxVarianceFound == scoringStats.max_positional_variance
        raised == maxVarianceFound > globalStats.max_positional_variance
        st1 == IF raised
                 THEN [st EXCEPT
                         !.global.max_positional_variance = maxVarianceFound,
                         !.cache = <<>>]
                 ELSE st
        Scored(t) == ScoredStats(st1.tokens[t], varianceMap[t], scoringStats)
        Final(t) == CategoryInertia(st1.tokens[t], assignCategory(Scored(t)))
    IN  [st |-> [st1 EXCEPT
                   !.tokens = [t \in DOMAIN @ |->
                                 IF t \in tokenSet
                                   THEN [Scored(t) EXCEPT
                                           !.category = Final(t).category,
                                           !.pending_category = Final(t).pending_category,
                                           !.pending_count = Final(t).pending_count]
                                   ELSE @[t]]],
         categorized |->
             Cardinality({t \in tokenSet : /\ Final(t).category /= "unclassified"
                                           /\ Final(t).category /= st1.tokens[t].category}),
         newCategory |-> [t \in tokenSet |-> assignCategory(Scored(t))]]

calculateScoresAndCategories(st, tokens, expired) ==
    LET g == getGlobalStats(st, expired)
    IN  ScoresFromPassA(g.st, tokens, g.data, VarianceMap(g.st, tokens))

(***************************************************************************)
(* Pair engine                                                             *)
(***************************************************************************)
\* The update of an existing pair (REINFORCE).
\* A faulty reinforcement that keeps the tier the row had.
ReinforcePairKeepsTier(existing, categoryA, categoryB, messageIndex) ==
    LET categoryModifier == Max(PromotionModifier(categoryA), PromotionModifier(categoryB))
        addStrength == (REINFORCEMENT_base * categoryModifier) \div Unit
        newStrength == Min(REINFORCEMENT_maxScore, existing.strength + addStrength)
    IN  [existing EXCEPT
           !.frequency = @ + 1,
           !.strength = newStrength,
           !.category_pattern = categoryA \o "->" \o categoryB,
           !.reinforcement_count = @ + 1,
           !.decay_at_message = messageIndex + DecayInterval(existing.tier),
           !.last_seen_message_index = messageIndex]

\* A faulty reinforcement without Math.min(maxScore, ...).
ReinforcePairUncapped(existing, categoryA, categoryB, messageIndex) ==
    LET categoryModifier == Max(PromotionModifier(categoryA), PromotionModifier(categoryB))
        addStrength == (REINFORCEMENT_base * categoryModifier) \div Unit
        newStrength == existing.strength + addStrength
        newTier == getTierForScore(newStrength)
    IN  [existing EXCEPT
           !.frequency = @ + 1,
           !.strength = newStrength,
           !.category_pattern = categoryA \o "->" \o categoryB,
           !.reinforcement_count = @ + 1,
           !.tier = newTier,
           !.decay_at_message = messageIndex + DecayInterval(newTier),
           !.last_seen_message_index = messageIndex]

\* A faulty reinforcement with Math.min of the two modifiers.
ReinforcePairMinModifier(existing, categoryA, categoryB, messageIndex) ==
    LET categoryModifier == Min(PromotionModifier(categoryA), PromotionModifier(categoryB))
        addStrength == (REINFORCEMENT_base * categoryModifier) \div Unit
        newStrength == Min(REINFORCEMENT_maxScore, existing.strength + addStrength)
        newTier == getTierForScore(newStrength)
    IN  [existing EXCEPT
           !.frequency = @ + 1,
           !.strength = newStrength,
           !.category_pattern = categoryA \o "->" \o categoryB,
           !.reinforcement_count = @ + 1,
           !.tier = newTier,
           !.decay_at_message = messageIndex + DecayInterval(newTier),
           !.last_seen_message_index = messageIndex]

\* A faulty reinforcement that leaves decay_at_message as it was.
ReinforcePairKeepsDecayAt(existing, categoryA, categoryB, messageIndex) ==
    LET categoryModifier == Max(PromotionModifier(categoryA), PromotionModifier(categoryB))
        addStrength == (REINFORCEMENT_base * categoryModifier) \div Unit
        newStrength == Min(REINFORCEMENT_maxScore, existing.strength + addStrength)
        newTier == getTierForScore(newStrength)
    IN  [existing EXCEPT
           !.frequency = @ + 1,
           !.strength = newStrength,
           !.category_pattern = categoryA \o "->" \o categoryB,
           !.reinforcement_count = @ + 1,
           !.tier = newTier,
           !.last_seen_message_index = messageIndex]

\* The update object of the reinforce branch (REINFORCE), applied to the row read.
ReinforcePair(existing, categoryA, categoryB, messageIndex) ==
    LET categoryModifier == Max(PromotionModifier(categoryA), PromotionModifier(categoryB))
        addStrength == (REINFORCEMENT_base * categoryModifier) \div Unit
        newStrength == Min(REINFORCEMENT_maxScore, existing.strength + addStrength)
        newTier == getTierForScore(newStrength)
    IN  [existing EXCEPT
           !.frequency = @ + 1,
           !.strength = newStrength,
           !.category_pattern = categoryA \o "->" \o categoryB,
           !.reinforcement_count = @ + 1,
           !.tier = newTier,
           !.decay_at_message = messageIndex + DecayInterval(newTier),
           !.last_seen_message_index = messageIndex]

\* newPair (CREATE).
\* A faulty new pair that does not count the occurrence that creates it.
NewPairUncounted(tokenA, tokenB, categoryA, categoryB, messageIndex) ==
    LET sorted == SortPair(tokenA, tokenB)
    IN  [pattern_key |-> generatePatternKey(tokenA, tokenB),
         token_a |-> sorted[1],
         token_b |-> sorted[2],
         frequency |-> 0,
         strength |-> REINFORCEMENT_base,
         category_pattern |-> categoryA \o "->" \o categoryB,
         reinforcement_count |-> 0,
         decay_count |-> 0,
         tier |-> "short",
         decay_at_message |-> messageIndex + DecayInterval("short"),
         last_seen_message_index |-> messageIndex]

NewPair(tokenA, tokenB, categoryA, categoryB, messageIndex) ==
    LET sorted == SortPair(tokenA, tokenB)
    IN  [pattern_key |-> generatePatternKey(tokenA, tokenB),
         token_a |-> sorted[1],
         token_b |-> sorted[2],
         frequency |-> 1,
         strength |-> REINFORCEMENT_base,
         category_pattern |-> categoryA \o "->" \o categoryB,
         reinforcement_count |-> 1,
         decay_count |-> 0,
         tier |-> "short",
         decay_at_message |-> messageIndex + DecayInterval("short"),
         last_seen_message_index |-> messageIndex]

\* select('*').eq('pattern_key', patternKey).single(): the id of the one row
\* with that key, 0 (no data) when there is none or more than one.
FindPair(pairs, patternKey) ==
    LET ids == {n \in DOMAIN pairs : pairs[n].pattern_key = patternKey}
    IN  IF Cardinality(ids) = 1 THEN CHOOSE n \in ids : TRUE ELSE 0

\* A faulty table without the UNIQUE constraint on pattern_key.
InsertPairNoUnique(pairs, newPair) ==
    [pairs |-> Append(pairs, newPair), error |-> FALSE]

\* insert(newPair): pattern_key is UNIQUE, a second row with the key is
\* refused with an error.
InsertPair(pairs, newPair) ==
    IF \E n \in DOMAIN pairs : pairs[n].pattern_key = newPair.pattern_key
      THEN [pairs |-> pairs, error |-> TRUE]
      ELSE [pairs |-> Append(pairs, newPair), error |-> FALSE]

\* update({...}).eq('id', existing.id) of the reinforce branch: the columns it
\* sets, computed from the row as it was read.
WriteReinforced(row, existing, categoryA, categoryB, messageIndex) ==
    LET updated == ReinforcePair(existing, categoryA, categoryB, messageIndex)
    IN  [row EXCEPT !.frequency = updated.frequency,
                    !.strength = updated.strength,
                    !.category_pattern = updated.category_pattern,
                    !.reinforcement_count = updated.reinforcement_count,
                    !.tier = updated.tier,
                    !.decay_at_message = updated.decay_at_message,
                    !.last_seen_message_index = updated.last_seen_message_index]

\* One iteration of the loop over adjacent tokens; acc = [st, newPairs,
\* reinforced, promoted].
PairStep(acc, tokenA, tokenB, messageIndex) ==
    IF tokenA = tokenB THEN acc
    ELSE LET patternKey == generatePatternKey(tokenA, tokenB)
             st1 == getOrCreateTokenStats(getOrCreateTokenStats(acc.st, tokenA), tokenB)
             categoryA == st1.tokens[tokenA].category
             categoryB == st1.tokens[tokenB].category
             id == FindPair(st1.pairs, patternKey)
             inserted == InsertPair(st1.pairs, NewPair(tokenA, tokenB, categoryA, categoryB,
                                                       messageIndex))
         IN  IF id /= 0
               THEN LET existing == st1.pairs[id]
                        written == WriteReinforced(existing, existing, categoryA, categoryB,
                                                   messageIndex)
                    IN  [st |-> [st1 EXCEPT !.pairs[id] = written],
                         newPairs |-> acc.newPairs,
                         reinforced |-> acc.reinforced + 1,
                         promoted |-> acc.promoted
                                      + (IF written.tier /= existing.tier THEN 1 ELSE 0)]
               ELSE [st |-> [st1 EXCEPT !.pairs = inserted.pairs],
                     newPairs |-> acc.newPairs + (IF inserted.error THEN 0 ELSE 1),
                     reinforced |-> acc.reinforced,
                     promoted |-> acc.promoted]

RECURSIVE PairLoop(_, _, _, _)
PairLoop(acc, tokens, i, messageIndex) ==
    IF i >= Len(tokens) THEN acc
    ELSE Bind(PairStep(acc, tokens[i], tokens[i + 1], messageIndex),
              LAMBDA next : PairLoop(next, tokens, i + 1, messageIndex))

processWordPairs(st, tokens, messageIndex) ==
    PairLoop([st |-> st, newPairs |-> 0, reinforced |-> 0, promoted |-> 0], tokens, 1,
             messageIndex)

(***************************************************************************)
(* Decay engine                                                            *)
(***************************************************************************)
\* A faulty select with .lt instead of .lte.
DueForDecayStrict(pairs, currentMessageIndex) ==
    {n \in DOMAIN pairs : /\ pairs[n].decay_at_message < currentMessageIndex
                          /\ pairs[n].tier /= "decay"}

\* The ids of the rows the select of processDecay returns.
DueForDecay(pairs, currentMessageIndex) ==
    {n \in DOMAIN pairs : /\ pairs[n].decay_at_message <= currentMessageIndex
                          /\ pairs[n].tier /= "decay"}

\* A faulty decay whose decay_at_message leaves out currentMessageIndex.
DecayPairRelative(row, pair, currentMessageIndex) ==
    LET config == IF pair.tier \in {"short", "medium", "long"} THEN pair.tier ELSE "short"
        newStrength == (pair.strength * (Unit - DecayRate(config))) \div Unit
        newTier == getTierForScore(newStrength)
    IN  IF newStrength < DECAY_MIN
          THEN [row EXCEPT !.tier = "decay",
                           !.strength = newStrength,
                           !.decay_count = pair.decay_count + 1]
          ELSE [row EXCEPT !.strength = newStrength,
                           !.tier = newTier,
                           !.decay_count = pair.decay_count + 1,
                           !.decay_at_message = DecayInterval(newTier)]

\* The columns the update of a due pair sets, computed from the row as it was
\* read (pair); row is the stored row the update lands on.
DecayPair(row, pair, currentMessageIndex) ==
    LET config == IF pair.tier \in {"short", "medium", "long"} THEN pair.tier ELSE "short"
        newStrength == (pair.strength * (Unit - DecayRate(config))) \div Unit
        newTier == getTierForScore(newStrength)
    IN  IF newStrength < DECAY_MIN
          THEN [row EXCEPT !.tier = "decay",
                           !.strength = newStrength,
                           !.decay_count = pair.decay_count + 1]
          ELSE [row EXCEPT !.strength = newStrength,
                           !.tier = newTier,
                           !.decay_count = pair.decay_count + 1,
                           !.decay_at_message = currentMessageIndex + DecayInterval(newTier)]

\* score * 0.99
AGING_FACTOR == 9900

AgeScores(stats) ==
    [stats EXCEPT !.stability_score = (@ * AGING_FACTOR) \div Unit,
                  !.transition_score = (@ * AGING_FACTOR) \div Unit,
                  !.dependency_score = (@ * AGING_FACTOR) \div Unit,
                  !.structural_score = (@ * AGING_FACTOR) \div Unit]

\* The token-score part of processDecay, reached only when some pair was due;
\* tokensDue are the rows whose updated_at is older than 24 hours.
AgeTokens(st, tokensDue) ==
    [st EXCEPT !.tokens = [t \in DOMAIN @ |-> IF t \in tokensDue THEN AgeScores(@[t]) ELSE @[t]]]

processDecay(st, currentMessageIndex, tokensDue) ==
    LET dueForDecay == DueForDecay(st.pairs, currentMessageIndex)
        after == [n \in DOMAIN st.pairs |->
                    IF n \in dueForDecay
                      THEN DecayPair(st.pairs[n], st.pairs[n], currentMessageIndex)
                      ELSE st.pairs[n]]
    IN  [st |-> IF dueForDecay = {}
                  THEN st
                  ELSE AgeTokens([st EXCEPT !.pairs = after], tokensDue),
         decayed |-> Cardinality({n \in dueForDecay : after[n].tier /= "decay"}),
         removed |-> Cardinality({n \in dueForDecay : after[n].tier = "decay"})]

\* wordsToPurgatory: one aria_purgatory row per token.
wordsToPurgatory(st, tokens, messageIndex) ==
    [st EXCEPT !.purgatory =
        @ \o [k \in 1..Len(tokens) |->
                [word |-> tokens[k], position |-> k - 1, message_index |-> messageIndex]]]

(***************************************************************************)
(* processMessage, one sequential tick.  env gives what the surroundings   *)
(* decide during the tick:                                                 *)
(*   rpcError  the aria_increment_message_counter RPC returns an error     *)
(*   expired1  the cache is older than 5 s at processTokenStatistics       *)
(*   expired2  the cache is older than 5 s at calculateScoresAndCategories *)
(*   aged      the rows not written in this tick are older than 24 hours   *)
(***************************************************************************)
Rejected == [processed |-> FALSE, messageIndex |-> NullIndex, tokensProcessed |-> 0,
             categorized |-> 0, newPairs |-> 0, reinforced |-> 0, promoted |-> 0,
             decayed |-> 0, removed |-> 0, reason |-> "Empty message or no user"]

\* The report of a tick that ran all four steps.
Report(messageIndex, tokens, s2, s3, s4) ==
    [processed |-> TRUE, messageIndex |-> messageIndex,
     tokensProcessed |-> Cardinality(Range(tokens)),
     categorized |-> s2.categorized,
     newPairs |-> s3.newPairs, reinforced |-> s3.reinforced,
     promoted |-> s3.promoted, decayed |-> s4.decayed,
     removed |-> s4.removed, reason |-> Null]

\* Steps 1 to 4 of a message with at least one token.
Pipeline(st, tokens, messageIndex, env) ==
    Bind(processTokenStatistics(wordsToPurgatory(st, tokens, messageIndex), tokens,
                                messageIndex, Len(tokens) = 1, env.expired1),
      LAMBDA s1 :
    Bind(calculateScoresAndCategories(s1, tokens, env.expired2),
      LAMBDA s2 :
    Bind(processWordPairs(s2.st, tokens, messageIndex),
      LAMBDA s3 :
    Bind(processDecay(s3.st, messageIndex,
                      IF env.aged THEN (DOMAIN s3.st.tokens) \ Range(tokens) ELSE {}),
      LAMBDA s4 :
        [st |-> s4.st, report |-> Report(messageIndex, tokens, s2, s3, s4),
         newCategory |-> s2.newCategory]))))

\* A faulty processMessage that takes its index before looking at its inputs.
processMessageCountsFirst(st, messageText, userId, env) ==
    Bind(getAndIncrementMessageIndex(st, env.rpcError, env.tableError),
      LAMBDA c :
        LET tokens == tokenizeMessage(messageText)
        IN  IF messageText = <<>> \/ userId = Null
              THEN [st |-> c.st, report |-> Rejected, newCategory |-> <<>>]
            ELSE IF Len(tokens) = 0
              THEN [st |-> c.st,
                    report |-> [Rejected EXCEPT !.processed = TRUE,
                                                !.messageIndex = c.index,
                                                !.reason = "No tokens"],
                    newCategory |-> <<>>]
            ELSE Pipeline(c.st, tokens, c.index, env))

processMessage(st, messageText, userId, env) ==
    IF messageText = <<>> \/ userId = Null
      THEN [st |-> st, report |-> Rejected, newCategory |-> <<>>]
      ELSE Bind(getAndIncrementMessageIndex(st, env.rpcError, env.tableError),
             LAMBDA c :
               LET tokens == tokenizeMessage(messageText)
               IN  IF Len(tokens) = 0
                     THEN [st |-> c.st,
                           report |-> [Rejected EXCEPT !.processed = TRUE,
                                                       !.messageIndex = c.index,
                                                       !.reason = "No tokens"],
                           newCategory |-> <<>>]
                     ELSE Pipeline(c.st, tokens, c.index, env))

(***************************************************************************)
(* Observation of a run.  hist keeps, per token, the last three scorings   *)
(* of the token: the candidate assignCategory returned and the             *)
(* row's category and pending fields before and after the tick.            *)
(***************************************************************************)
LastN(s, n) == IF Len(s) <= n THEN s ELSE SubSeq(s, Len(s) - n + 1, Len(s))

Scoring(before, r, t) ==
    [candidate |-> r.newCategory[t],
     before |-> IF t \in DOMAIN before.tokens THEN before.tokens[t].category
                                              ELSE "unclassified",
     pending_before |-> IF t \in DOMAIN before.tokens THEN before.tokens[t].pending_category
                                                      ELSE Null,
     after |-> r.st.tokens[t].category,
     count_after |-> r.st.tokens[t].pending_count]

Observe(hist, before, r) ==
    [t \in (DOMAIN hist) \cup (DOMAIN r.newCategory) |->
       IF t \in DOMAIN r.newCategory
         THEN LastN((IF t \in DOMAIN hist THEN hist[t] ELSE <<>>) \o <<Scoring(before, r, t)>>,
                    INERTIA_THRESHOLD)
         ELSE hist[t]]

\* One call of processMessage on a world [st, hist].
Step(w, text, userId, env) ==
    Bind(processMessage(w.st, text, userId, env),
         LAMBDA r : [st |-> r.st, hist |-> Observe(w.hist, w.st, r), r |-> r])

(***************************************************************************)
(* Stores the program reaches.  A history is a sequence of runs            *)
(* [text, times]: the text is processed `times` times in a row, each tick  *)
(* more than 5 seconds after the one before and shorter than 5 seconds     *)
(* (WarmEnv).  WorldAfter folds processMessage over a history from the     *)
(* store the migrations create.                                            *)
(***************************************************************************)
WarmEnv ==
    [rpcError |-> FALSE, tableError |-> FALSE, expired1 |-> TRUE, expired2 |-> FALSE,
     aged |-> FALSE]

EmptyWorld == [st |-> EmptyStore, hist |-> <<>>]

RECURSIVE Repeat(_, _, _)
Repeat(w, text, times) ==
    IF times = 0 THEN w
    ELSE IF times = 1
      THEN Bind(Step(w, text, "u1", WarmEnv), LAMBDA x : [st |-> x.st, hist |-> x.hist])
    ELSE Bind(Repeat(w, text, times \div 2),
              LAMBDA half : Repeat(half, text, times - (times \div 2)))

RECURSIVE WorldAfter(_, _)
WorldAfter(w, history) ==
    IF history = <<>> THEN w
    ELSE Bind(Repeat(w, Head(history).text, Head(history).times),
              LAMBDA next : WorldAfter(next, Tail(history)))

Run(text, times) == [text |-> text, times |-> times]

\* A message without tokens: the counter advances, nothing else happens.
Idle(times) == Run(<<"!">>, times)

GoodBad == <<"good", "bad">>

\* A short pair decayed four times, 50 messages apart, and due a fifth time.
FadingPair ==
    <<Run(GoodBad, 1), Idle(49), Run(<<"now">>, 1), Idle(49), Run(<<"now">>, 1),
      Idle(49), Run(<<"now">>, 1), Idle(49), Run(<<"now">>, 1), Idle(49)>>

Histories ==
    { <<>>,
      <<Run(GoodBad, 2)>>,
      <<Run(GoodBad, 3)>>,
      <<Run(GoodBad, 3), Run(<<"good", "now">>, 1), Run(GoodBad, 1)>>,
      <<Run(GoodBad, 1), Idle(49)>>,
      <<Run(GoodBad, 1), Idle(49), Run(GoodBad, 1), Idle(49)>>,
      FadingPair,
      FadingPair \o <<Run(<<"now">>, 1)>>,
      <<Run(GoodBad, 11)>>,
      <<Run(GoodBad, 12), Idle(199)>>,
      <<Run(GoodBad, 12), Idle(199), Run(<<"now">>, 1), Idle(199)>>,
      <<Run(GoodBad, 27)>>,
      <<Run(GoodBad, 28), Idle(999)>>,
      <<Run(GoodBad, 34)>> }

(***************************************************************************)
(* Sequential ticks: one call of processMessage at a time.                 *)
(*   store  the store                                                      *)
(*   hist   the scorings observed                                          *)
(*   last   the last call: its inputs, its report, the previous index      *)
(*   ticks  calls made in this behaviour                                   *)
(* Concurrent ticks (further down) add                                     *)
(*   procs   per caller: where its call of processMessage stands and the   *)
(*           locals it holds across awaits                                 *)
(*   issued  the indexes getAndIncrementMessageIndex has returned          *)
(***************************************************************************)
VARIABLES store, hist, last, ticks, procs, issued

vars == <<store, hist, last, ticks, procs, issued>>

Procs == {"p1", "p2"}

IdleProc ==
    [pc |-> "idle", text |-> <<>>, tokens |-> <<>>, messageIndex |-> NullIndex,
     counterRead |-> NullIndex, i |-> 1, categoryA |-> Null, categoryB |-> Null,
     existing |-> <<>>, error |-> FALSE, newPairs |-> 0, reinforced |-> 0, promoted |-> 0,
     due |-> <<>>, globalStats |-> <<>>, currentStats |-> <<>>, varianceMap |-> <<>>]

MaxTicks == 2

Env(rpcError, expired1, expired2, aged) ==
    [rpcError |-> rpcError, tableError |-> FALSE, expired1 |-> expired1,
     expired2 |-> expired2, aged |-> aged]

Call(text, userId, env) == [text |-> text, userId |-> userId, env |-> env]

\* The calls a tick draws from: rejected calls, messages without tokens,
\* and messages of one to three tokens under the timings that matter to them.
Calls ==
    { Call(<<>>, "u1", WarmEnv),
      Call(GoodBad, Null, WarmEnv),
      Call(<<"!">>, "u1", WarmEnv),
      Call(<<"!">>, "u1", Env(TRUE, TRUE, FALSE, FALSE)),
      Call(<<"Good">>, "u1", WarmEnv),
      Call(GoodBad, "u1", WarmEnv),
      Call(GoodBad, "u1", Env(FALSE, FALSE, FALSE, FALSE)),
      Call(GoodBad, "u1", Env(FALSE, TRUE, TRUE, FALSE)),
      Call(GoodBad, "u1", Env(FALSE, FALSE, TRUE, FALSE)),
      Call(GoodBad, "u1", Env(TRUE, TRUE, FALSE, FALSE)),
      Call(GoodBad, "u1", Env(FALSE, TRUE, FALSE, TRUE)),
      Call(<<"bad", "good">>, "u1", WarmEnv),
      Call(<<"bad", "good">>, "u1", Env(FALSE, FALSE, FALSE, FALSE)),
      Call(<<"good", "now">>, "u1", WarmEnv),
      Call(<<"now", "now">>, "u1", WarmEnv),
      Call(<<"good", "now">>, "u1", Env(FALSE, TRUE, FALSE, TRUE)),
      Call(<<"bad", "good", "now">>, "u1", WarmEnv),
      Call(<<"bad", "good", "now">>, "u1", Env(FALSE, TRUE, TRUE, FALSE)) }

NoCall ==
    [text |-> <<>>, userId |-> Null, env |-> WarmEnv, report |-> Rejected,
     pair |-> <<>>, mirror |-> <<>>]

Reverse(text) == [i \in 1..Len(text) |-> text[Len(text) + 1 - i]]

\* The row of the pair of the two tokens of a message, <<>> when there is none.
PairOf(st, tokens) ==
    IF Len(tokens) /= 2 THEN <<>>
    ELSE LET id == FindPair(st.pairs, generatePatternKey(tokens[1], tokens[2]))
         IN  IF id = 0 THEN <<>> ELSE <<st.pairs[id]>>

\* The pair row a two-token message leaves when its tokens come in the other
\* order, from the same store and under the same timings.
Mirror(st, text, userId, env) ==
    IF Len(text) /= 2 THEN <<>>
    ELSE Bind(processMessage(st, Reverse(text), userId, env),
              LAMBDA r : PairOf(r.st, tokenizeMessage(text)))

Init ==
    /\ \E history \in Histories :
         LET w == WorldAfter(EmptyWorld, history)
         IN  /\ store = w.st
             /\ hist = w.hist
    /\ last = NoCall
    /\ ticks = 0
    /\ procs = [p \in Procs |-> IdleProc]
    /\ issued = <<>>

ProcessMessage ==
    /\ ticks < MaxTicks
    /\ \E call \in Calls :
         LET w == Step([st |-> store, hist |-> hist], call.text, call.userId, call.env)
         IN  /\ store' = w.st
             /\ hist' = w.hist
             /\ last' = [text |-> call.text, userId |-> call.userId, env |-> call.env,
                         report |-> w.r.report,
                         pair |-> PairOf(w.st, tokenizeMessage(call.text)),
                         mirror |-> Mirror(store, call.text, call.userId, call.env)]
    /\ ticks' = ticks + 1
    /\ UNCHANGED <<procs, issued>>

Next == ProcessMessage

Spec == Init /\ [][Next]_vars

(***************************************************************************)
(* Sequential ticks while the Store fails the calls on the message         *)
(* counter: the RPC, and in an outage the select and the update of the     *)
(* fallback too.                                                           *)
(***************************************************************************)
Outage == [WarmEnv EXCEPT !.rpcError = TRUE, !.tableError = TRUE]

OutageCalls ==
    { Call(GoodBad, "u1", Outage),
      Call(<<"good", "now">>, "u1", Outage),
      Call(<<"!">>, "u1", Outage),
      Call(GoodBad, "u1", Env(TRUE, TRUE, FALSE, FALSE)),
      Call(GoodBad, "u1", WarmEnv),
      Call(GoodBad, Null, Outage) }

ProcessMessageDuringOutage ==
    /\ ticks < MaxTicks
    /\ \E call \in OutageCalls :
         LET w == Step([st |-> store, hist |-> hist], call.text, call.userId, call.env)
         IN  /\ store' = w.st
             /\ hist' = w.hist
             /\ last' = [text |-> call.text, userId |-> call.userId, env |-> call.env,
                         report |-> w.r.report,
                         pair |-> PairOf(w.st, tokenizeMessage(call.text)),
                         mirror |-> <<>>]
    /\ ticks' = ticks + 1
    /\ UNCHANGED <<procs, issued>>

NextOutage == ProcessMessageDuringOutage

SpecOutage == Init /\ [][NextOutage]_vars

(***************************************************************************)
(* Concurrent ticks: every caller runs processMessage; each await of a     *)
(* Store call is a point where the other caller may run.  The token        *)
(* statistics and scoring steps of a tick are taken in one step.           *)
(***************************************************************************)
\* Calls of processMessage in a behaviour, over all callers (counted in ticks).
MaxCalls == 2

ConcTexts == {GoodBad, <<"bad", "good">>, <<"good", "now">>, <<"!">>}

ConcStores == {EmptyStore, WorldAfter(EmptyWorld, <<Run(GoodBad, 1), Idle(49)>>).st}

InitConc ==
    /\ store \in ConcStores
    /\ hist = <<>>
    /\ last = NoCall
    /\ ticks = 0
    /\ procs = [p \in Procs |-> IdleProc]
    /\ issued = <<>>

At(p, pc) == procs[p].pc = pc

Goto(p, pc, changes) == procs' = [procs EXCEPT ![p] = [changes EXCEPT !.pc = pc]]

\* processMessage is called with a text and a user.
CallProcessMessage(p) ==
    /\ At(p, "idle")
    /\ ticks < MaxCalls
    /\ \E text \in ConcTexts : Goto(p, "rpc", [IdleProc EXCEPT !.text = text])
    /\ ticks' = ticks + 1
    /\ UNCHANGED <<store, hist, last, issued>>

\* Where a caller goes once it holds its index.
AfterIndex(proc, messageIndex) ==
    LET tokens == tokenizeMessage(proc.text)
    IN  [proc EXCEPT !.messageIndex = messageIndex,
                     !.tokens = tokens,
                     !.pc = IF tokens = <<>> THEN "return" ELSE "stats"]

\* The RPC answers: the UPDATE ... RETURNING of the function is one statement.
RpcReturns(p) ==
    /\ At(p, "rpc")
    /\ LET r == getAndIncrementMessageIndex(store, FALSE, FALSE)
       IN  /\ store' = r.st
           /\ procs' = [procs EXCEPT ![p] = AfterIndex(@, r.index)]
           /\ issued' = Append(issued, r.index)
    /\ UNCHANGED <<hist, last, ticks>>

\* The RPC answers with an error.
RpcFails(p) ==
    /\ At(p, "rpc")
    /\ Goto(p, "read", procs[p])
    /\ UNCHANGED <<store, hist, last, ticks, issued>>

\* The select of the fallback.
FallbackRead(p) ==
    /\ At(p, "read")
    /\ Goto(p, "write", [procs[p] EXCEPT !.counterRead = store.counter])
    /\ UNCHANGED <<store, hist, last, ticks, issued>>

\* The update of the fallback and its return.
FallbackWrite(p) ==
    /\ At(p, "write")
    /\ LET newIndex == procs[p].counterRead + 1
       IN  /\ store' = [store EXCEPT !.counter = newIndex]
           /\ procs' = [procs EXCEPT ![p] = AfterIndex(@, newIndex)]
           /\ issued' = Append(issued, newIndex)
    /\ UNCHANGED <<hist, last, ticks>>

\* wordsToPurgatory, processTokenStatistics and calculateScoresAndCategories.
TokenSteps(p) ==
    /\ At(p, "stats")
    /\ LET proc == procs[p]
           s0 == wordsToPurgatory(store, proc.tokens, proc.messageIndex)
           s1 == processTokenStatistics(s0, proc.tokens, proc.messageIndex,
                                        Len(proc.tokens) = 1, WarmEnv.expired1)
           s2 == calculateScoresAndCategories(s1, proc.tokens, WarmEnv.expired2)
       IN  store' = s2.st
    /\ Goto(p, "pairRead", [procs[p] EXCEPT !.i = 1])
    /\ UNCHANGED <<hist, last, ticks, issued>>

\* The reads of one iteration of the loop of processWordPairs: the two
\* categories and the existing row; the loop ends after the last adjacent pair.
PairRead(p) ==
    /\ At(p, "pairRead")
    /\ LET proc == procs[p]
       IN  IF proc.i >= Len(proc.tokens)
             THEN /\ Goto(p, "decayRead", proc)
                  /\ UNCHANGED store
           ELSE IF proc.tokens[proc.i] = proc.tokens[proc.i + 1]
             THEN /\ Goto(p, "pairRead", [proc EXCEPT !.i = @ + 1])
                  /\ UNCHANGED store
           ELSE LET tokenA == proc.tokens[proc.i]
                    tokenB == proc.tokens[proc.i + 1]
                    st1 == getOrCreateTokenStats(getOrCreateTokenStats(store, tokenA), tokenB)
                    id == FindPair(st1.pairs, generatePatternKey(tokenA, tokenB))
                IN  /\ store' = st1
                    /\ Goto(p, "pairWrite",
                            [proc EXCEPT !.categoryA = st1.tokens[tokenA].category,
                                         !.categoryB = st1.tokens[tokenB].category,
                                         !.existing = IF id = 0 THEN <<>>
                                                      ELSE <<[id |-> id, row |-> st1.pairs[id]]>>])
    /\ UNCHANGED <<hist, last, ticks, issued>>

\* The write of the iteration: the update of the row read, or the insert.
PairWrite(p) ==
    /\ At(p, "pairWrite")
    /\ LET proc == procs[p]
           inserted == InsertPair(store.pairs,
                                  NewPair(proc.tokens[proc.i], proc.tokens[proc.i + 1],
                                          proc.categoryA, proc.categoryB, proc.messageIndex))
       IN  IF proc.existing /= <<>>
             THEN LET id == proc.existing[1].id
                  IN  /\ store' = [store EXCEPT !.pairs[id] =
                                     WriteReinforced(@, proc.existing[1].row, proc.categoryA,
                                                     proc.categoryB, proc.messageIndex)]
                      /\ Goto(p, "pairRead",
                              [proc EXCEPT !.i = @ + 1,
                                           !.existing = <<>>,
                                           !.reinforced = @ + 1,
                                           !.promoted =
                                               @ + (IF store'.pairs[id].tier
                                                         /= proc.existing[1].row.tier
                                                      THEN 1 ELSE 0)])
             ELSE /\ store' = [store EXCEPT !.pairs = inserted.pairs]
                  /\ Goto(p, "pairRead",
                          [proc EXCEPT !.i = @ + 1,
                                       !.error = inserted.error,
                                       !.newPairs = @ + (IF inserted.error THEN 0 ELSE 1)])
    /\ UNCHANGED <<hist, last, ticks, issued>>

\* The select of processDecay.
DecayRead(p) ==
    /\ At(p, "decayRead")
    /\ LET dueForDecay == DueForDecay(store.pairs, procs[p].messageIndex)
       IN  Goto(p, IF dueForDecay = {} THEN "return" ELSE "decayWrite",
                [procs[p] EXCEPT !.due = [n \in dueForDecay |-> store.pairs[n]]])
    /\ UNCHANGED <<store, hist, last, ticks, issued>>

\* The updates of the rows read as due.
DecayWrite(p) ==
    /\ At(p, "decayWrite")
    /\ LET proc == procs[p]
       IN  store' = [store EXCEPT !.pairs =
                       [n \in DOMAIN @ |->
                          IF n \in DOMAIN proc.due
                            THEN DecayPair(@[n], proc.due[n], proc.messageIndex)
                            ELSE @[n]]]
    /\ Goto(p, "return", [procs[p] EXCEPT !.due = <<>>])
    /\ UNCHANGED <<hist, last, ticks, issued>>

\* processMessage returns its report.
Return(p) ==
    /\ At(p, "return")
    /\ Goto(p, "idle", IdleProc)
    /\ UNCHANGED <<store, hist, last, ticks, issued>>

NextConc ==
    \E p \in Procs :
       \/ CallProcessMessage(p)
       \/ RpcReturns(p)
       \/ RpcFails(p)
       \/ FallbackRead(p)
       \/ FallbackWrite(p)
       \/ TokenSteps(p)
       \/ PairRead(p)
       \/ PairWrite(p)
       \/ DecayRead(p)
       \/ DecayWrite(p)
       \/ Return(p)

SpecConc == InitConc /\ [][NextConc]_vars

(***************************************************************************)
(* Concurrent ticks at the awaits of processTokenStatistics: a caller      *)
(* reads the rows of its tokens in the first pass and writes them in the   *)
(* batched update; the other caller may run in between.  The rest of a     *)
(* tick is taken in one step with the batched update.                      *)
(***************************************************************************)
StatsTexts == {GoodBad, <<"bad", "good", "now">>, <<"now">>}

InitStats ==
    /\ store \in ConcStores
    /\ hist = <<>>
    /\ last = NoCall
    /\ ticks = 0
    /\ procs = [p \in Procs |-> IdleProc]
    /\ issued = <<>>

\* processMessage is called and takes its index from the RPC.
StatsBegin(p) ==
    /\ At(p, "idle")
    /\ ticks < MaxCalls
    /\ \E text \in StatsTexts :
          LET r == getAndIncrementMessageIndex(store, FALSE, FALSE)
          IN  /\ store' = r.st
              /\ procs' = [procs EXCEPT ![p] = AfterIndex([IdleProc EXCEPT !.text = text],
                                                          r.index)]
              /\ issued' = Append(issued, r.index)
    /\ ticks' = ticks + 1
    /\ UNCHANGED <<hist, last>>

\* wordsToPurgatory and the first pass of processTokenStatistics.
StatsRead(p) ==
    /\ At(p, "stats")
    /\ LET proc == procs[p]
           s0 == wordsToPurgatory(store, proc.tokens, proc.messageIndex)
           r == readTokenStatistics(s0, proc.tokens, WarmEnv.expired1)
       IN  /\ store' = r.st
           /\ Goto(p, "statsWrite", [proc EXCEPT !.globalStats = r.globalStats,
                                                 !.currentStats = r.currentStats])
    /\ UNCHANGED <<hist, last, ticks, issued>>

\* The batched update of processTokenStatistics, then the scoring, the pair
\* engine and the decay of the tick, and its return.
StatsWrite(p) ==
    /\ At(p, "statsWrite")
    /\ LET proc == procs[p]
           s1 == writeTokenStatistics(store, proc.tokens, proc.messageIndex,
                                      Len(proc.tokens) = 1, proc.globalStats,
                                      proc.currentStats)
           s2 == calculateScoresAndCategories(s1, proc.tokens, WarmEnv.expired2)
           s3 == processWordPairs(s2.st, proc.tokens, proc.messageIndex)
           s4 == processDecay(s3.st, proc.messageIndex, {})
       IN  store' = s4.st
    /\ Goto(p, "idle", IdleProc)
    /\ UNCHANGED <<hist, last, ticks, issued>>

NextStats ==
    \E p \in Procs :
       \/ StatsBegin(p)
       \/ StatsRead(p)
       \/ StatsWrite(p)

SpecStats == InitStats /\ [][NextStats]_vars

(***************************************************************************)
(* One message repeated on consecutive ticks from the empty store, under   *)
(* the timings of the cache and either path of the counter.                *)
(***************************************************************************)
MaxRepeats == 50

GoodMorning == <<"good", "morning">>

RepeatEnvs ==
    {WarmEnv, Env(FALSE, FALSE, FALSE, FALSE), Env(FALSE, TRUE, TRUE, FALSE),
     Env(TRUE, FALSE, TRUE, FALSE)}

InitRepeat ==
    /\ store = EmptyStore
    /\ hist = <<>>
    /\ last = NoCall
    /\ ticks = 0
    /\ procs = [p \in Procs |-> IdleProc]
    /\ issued = <<>>

RepeatMessage ==
    /\ ticks < MaxRepeats
    /\ \E env \in RepeatEnvs :
         LET w == Step([st |-> store, hist |-> hist], GoodMorning, "u1", env)
         IN  /\ store' = w.st
             /\ hist' = w.hist
             /\ last' = [text |-> GoodMorning, userId |-> "u1", env |-> env,
                         report |-> w.r.report,
                         pair |-> PairOf(w.st, GoodMorning),
                         mirror |-> <<>>]
    /\ ticks' = ticks + 1
    /\ UNCHANGED <<procs, issued>>

NextRepeat == RepeatMessage

SpecRepeat == InitRepeat /\ [][NextRepeat]_vars

(***************************************************************************)
(* Properties of the pair table                                            *)
(***************************************************************************)
PairIds == DOMAIN store.pairs

Active == {n \in PairIds : store.pairs[n].tier /= "decay"}

\* C1: every stored pair whose tier is not 'decay' has the tier derived from
\* its stored strength: short below 0.30, medium from 0.30 to below 0.80,
\* long from 0.80.
TierDerivedFromStrength ==
    \A n \in Active :
       LET pair == store.pairs[n]
       IN  /\ pair.strength < SHORT_MAX => pair.tier = "short"
           /\ (pair.strength >= SHORT_MAX /\ pair.strength < MEDIUM_MAX) => pair.tier = "medium"
           /\ pair.strength >= MEDIUM_MAX => pair.tier = "long"

\* A reinforcement has just moved a pair to another tier.
PairPromoted ==
    /\ last.report.promoted > 0
    /\ \E n \in Active : /\ store.pairs[n].tier \in {"medium", "long"}
                         /\ store.pairs[n].last_seen_message_index = store.counter

\* C2: every pair's strength lies in [0, 1].
StrengthInUnitInterval ==
    \A n \in PairIds : /\ store.pairs[n].strength >= 0
                       /\ store.pairs[n].strength <= Unit

\* A reinforcement has just hit the cap of 1.0.
PairAtCap ==
    /\ last.report.reinforced > 0
    /\ \E n \in PairIds : /\ store.pairs[n].strength = Unit
                          /\ store.pairs[n].last_seen_message_index = store.counter

\* C9: every pair whose tier is not 'decay' has
\* decay_at_message > last_seen_message_index.
DecayAfterLastSeen ==
    \A n \in Active :
       store.pairs[n].decay_at_message > store.pairs[n].last_seen_message_index

\* The last tick created a pair and decayed another without retiring it.
PairCreatedAndPairDecayed ==
    /\ last.report.newPairs > 0
    /\ last.report.decayed > 0
    /\ \E n \in Active : store.pairs[n].decay_count > 0

(***************************************************************************)
(* Properties of the message counter                                       *)
(***************************************************************************)
\* The call recorded in a state had non-empty text and a user.
Accepted(call) == call.text /= <<>> /\ call.userId /= Null

\* C3: in a sequential run current_index never decreases, and every call of
\* processMessage with non-empty text and a user advances it by exactly 1,
\* also when the text has no tokens.
CounterAdvancesByOne ==
    [][/\ store'.counter >= store.counter
       /\ Accepted(last') => store'.counter = store.counter + 1
       /\ Accepted(last') => last'.report.messageIndex = store'.counter]_vars

\* A call without tokens took its index through the read-then-update path.
ZeroTokenCallCounted ==
    /\ ticks > 0
    /\ last.text = <<"!">>
    /\ last.env.rpcError
    /\ last.report.reason = "No tokens"
    /\ last.report.messageIndex = store.counter

(***************************************************************************)
(* Properties of category inertia                                          *)
(***************************************************************************)
Scored == DOMAIN hist

LastScoring(t) == hist[t][Len(hist[t])]

\* C4: a token's category changes in a tick only when the candidate of the
\* tick differs from the category held and was also the candidate of the two
\* preceding ticks that scored the token; a tick whose candidate is the
\* category held leaves no pending count, and a tick whose candidate differs
\* from the pending one starts the count again at 1.
CategoryChangesOnThirdWin ==
    \A t \in Scored :
       LET h == hist[t]
           e == LastScoring(t)
       IN  /\ e.after /= e.before =>
                 /\ e.candidate /= e.before
                 /\ e.after = e.candidate
                 /\ Len(h) >= INERTIA_THRESHOLD
                 /\ \A k \in 1..Len(h) : h[k].candidate = e.candidate
                 /\ \A k \in 1..Len(h) : h[k].before = e.before
           /\ e.candidate = e.before => e.after = e.before /\ e.count_after = 0
           /\ (e.candidate /= e.before /\ e.candidate /= e.pending_before) =>
                 e.after = e.before /\ e.count_after = 1

\* The last tick switched a token's category.
CategorySwitched ==
    /\ last.report.categorized > 0
    /\ \E t \in Scored : LastScoring(t).after /= LastScoring(t).before

\* C10: pending_count is in {0,1,2,3}; a positive pending_count comes with a
\* pending_category that is set and differs from the category; a tick that
\* switches the category leaves pending_category nil and pending_count 0.
PendingWellFormed ==
    /\ \A t \in DOMAIN store.tokens :
          LET stats == store.tokens[t]
          IN  /\ stats.pending_count \in 0..INERTIA_THRESHOLD
              /\ stats.pending_count > 0 =>
                    /\ stats.pending_category /= Null
                    /\ stats.pending_category /= stats.category
    /\ \A t \in Scored :
          LastScoring(t).after /= LastScoring(t).before =>
             /\ store.tokens[t].pending_category = Null
             /\ store.tokens[t].pending_count = 0

\* A token is one win short of a switch, another has just switched.
PendingAndCommitted ==
    /\ \E t \in DOMAIN store.tokens : store.tokens[t].pending_count = INERTIA_THRESHOLD - 1
    /\ \E t \in Scored : /\ LastScoring(t).after /= LastScoring(t).before
                          /\ LastScoring(t).pending_before = LastScoring(t).candidate

(***************************************************************************)
(* Properties of the decay step                                            *)
(***************************************************************************)
\* The decay step turned row `before` into row `after` at messageIndex.
DecayedOnce(before, after, messageIndex) ==
    /\ after.pattern_key = before.pattern_key
    /\ after.decay_count = before.decay_count + 1
    /\ \/ after.tier = "decay"
       \/ /\ after.strength < before.strength
          /\ after.decay_at_message = messageIndex + DecayInterval(after.tier)

\* The call recorded in a state ran the four steps of a tick.
RanTick(call) == call.report.processed /\ call.report.reason = Null

\* C8: in a tick, every non-decay pair with decay_at_message <= messageIndex
\* that the tick does not reinforce is decayed exactly once: it ends in tier
\* 'decay' or with less strength and decay_at_message = messageIndex +
\* interval of its new tier, its decay_count is one more, the row remains.
DuePairsDecayedOnce ==
    [][RanTick(last') =>
         \A n \in DOMAIN store.pairs :
            (/\ store.pairs[n].tier /= "decay"
             /\ store.pairs[n].decay_at_message <= last'.report.messageIndex
             /\ n \in DOMAIN store'.pairs
                  => store'.pairs[n].last_seen_message_index /= last'.report.messageIndex)
            => /\ n \in DOMAIN store'.pairs
               /\ DecayedOnce(store.pairs[n], store'.pairs[n],
                              last'.report.messageIndex)]_vars

\* The last tick retired a pair that was due exactly at its index.
PairRetired ==
    /\ RanTick(last)
    /\ last.report.removed > 0
    /\ \E n \in PairIds : /\ store.pairs[n].tier = "decay"
                          /\ store.pairs[n].decay_at_message = store.counter

(***************************************************************************)
(* Order of the two tokens of a message                                    *)
(***************************************************************************)
TwoTokenTick == RanTick(last) /\ Len(last.text) = 2 /\ last.pair /= <<>>

\* C7: from the same store and message index, "a b" and "b a" leave the pair
\* row of {a, b} identical in every field.
OrderIndependent == TwoTokenTick => last.pair = last.mirror

(***************************************************************************)
(* Properties of concurrent ticks                                          *)
(***************************************************************************)
\* C5: no two ticks obtain the same messageIndex, through the RPC or through
\* the read-then-update path.
DistinctMessageIndexes ==
    \A i, j \in 1..Len(issued) : i /= j => issued[i] /= issued[j]

\* C6: every pair row has token_a <= token_b and
\* pattern_key = token_a + "_" + token_b, and no two rows share a pattern_key.
PairsCanonical ==
    \A n \in PairIds :
       LET pair == store.pairs[n]
       IN  /\ Rank(pair.token_a) <= Rank(pair.token_b)
           /\ pair.pattern_key = pair.token_a \o "_" \o pair.token_b
           /\ \A m \in PairIds : store.pairs[m].pattern_key = pair.pattern_key => m = n

\* Two callers found no row for the same two tokens, met in opposite orders;
\* one insert was refused.
InsertRefused ==
    \E p, q \in Procs :
       /\ procs[p].error
       /\ procs[p].text = GoodBad
       /\ procs[q].text = <<"bad", "good">>
       /\ \E n \in PairIds : /\ store.pairs[n].pattern_key = "bad_good"
                             /\ store.pairs[n].last_seen_message_index = procs[q].messageIndex

(***************************************************************************)
(* Properties of the token statistics                                      *)
(***************************************************************************)
\* The distinct tokens within ADJACENCY_WINDOW places of an occurrence of t.
Window(tokens, t) ==
    {tokens[j] : j \in {j \in 1..Len(tokens) :
                          \E k \in 1..Len(tokens) : /\ tokens[k] = t
                                                    /\ j /= k
                                                    /\ j - k <= ADJACENCY_WINDOW
                                                    /\ k - j <= ADJACENCY_WINDOW}}

AdjacencyCount(st, t) ==
    IF t \in DOMAIN st.tokens THEN st.tokens[t].unique_adjacency_count ELSE 0

\* C11: over sequential ticks unique_adjacency_count never decreases; after a
\* tick it is the larger of its previous value and the number of distinct
\* tokens within two places of the token's occurrences in the message.
AdjacencyHighWaterMark ==
    [][\A t \in DOMAIN store'.tokens :
         LET tokens == tokenizeMessage(last'.text)
         IN  /\ AdjacencyCount(store', t) >= AdjacencyCount(store, t)
             /\ AdjacencyCount(store', t) =
                  IF RanTick(last') /\ t \in Range(tokens)
                    THEN Max(AdjacencyCount(store, t), Cardinality(Window(tokens, t)))
                    ELSE AdjacencyCount(store, t)]_vars

\* The last message gave a token fewer neighbours than it had seen before.
AdjacencyKept ==
    /\ RanTick(last)
    /\ \E t \in Range(tokenizeMessage(last.text)) :
          AdjacencyCount(store, t) > Cardinality(Window(tokenizeMessage(last.text), t))

(***************************************************************************)
(* Rejected calls                                                          *)
(***************************************************************************)
\* C12: a call with empty text or without a user returns processed: false
\* with a reason and leaves the store as it was: counter, token stats,
\* positions, global stats and pairs.
RejectedCallChangesNothing ==
    [][~Accepted(last') =>
         /\ ~last'.report.processed
         /\ last'.report.reason = "Empty message or no user"
         /\ store' = store]_vars

\* A call without a user was made on a store that holds pairs.
CallWithoutUserRejected ==
    /\ ticks > 0
    /\ last.userId = Null
    /\ last.text /= <<>>
    /\ ~last.report.processed
    /\ store.pairs /= <<>>

\* The row of the pair of the first two tokens of a caller's message.
PairOfCaller(p) == PairOf(store, procs[p].tokens)

\* C13: when two concurrent ticks both find a pattern_key absent and both
\* insert, the tick whose insert collides runs the reinforce branch for the
\* key: the occurrence is counted in its 'reinforced' and applied to the row.
CollisionFallsThroughToReinforce ==
    \A p \in Procs :
       procs[p].error =>
          /\ procs[p].reinforced > 0
          /\ PairOfCaller(p) /= <<>>
          /\ PairOfCaller(p)[1].frequency >= 2
          /\ PairOfCaller(p)[1].last_seen_message_index >= procs[p].messageIndex

(***************************************************************************)
(* Failed increments of the message counter                                *)
(***************************************************************************)
\* The call recorded in a state found every call on the counter failing.
IncrementFailed(call) == Accepted(call) /\ call.env.rpcError /\ call.env.tableError

\* C14: when the increment of the message counter fails (and keeps failing
\* when tried again), an error is surfaced to the caller of processMessage;
\* the tick does not continue with an index.
FailedIncrementSurfaced ==
    IncrementFailed(last) =>
       /\ ~last.report.processed
       /\ last.report.messageIndex = NullIndex

(***************************************************************************)
(* Properties of the global statistics                                     *)
(***************************************************************************)
\* The accepted messages with at least one token, by their index: each left
\* one purgatory row per token.
MessagesSeen == {store.purgatory[k].message_index : k \in DOMAIN store.purgatory}

TokensSeen == Len(store.purgatory)

\* C15: after any sequence of accepted messages of n >= 1 tokens, however
\* closely they follow each other, total_contexts_seen is the number of the
\* messages, total_tokens_seen the sum of n and total_adj_windows the sum of
\* max(0, n - 1), counted from the empty store.
GlobalTotalsExact ==
    /\ store.global.total_contexts_seen = Cardinality(MessagesSeen)
    /\ store.global.total_tokens_seen = TokensSeen
    /\ store.global.total_adj_windows = TokensSeen - Cardinality(MessagesSeen)

\* C16: every write of the global stats row invalidates the cache: a later
\* getGlobalStats, whether or not 5 seconds have passed since the cache was
\* filled, returns the row and not values cached before the write.
CacheInvalidatedByWrites ==
    \A expired \in BOOLEAN : getGlobalStats(store, expired).data = store.global

\* C17: under any interleaving of concurrent ticks, no counter of a token's
\* row ever takes a value lower than one it held earlier.
Counters(row) ==
    <<row.total_occurrences, row.context_count, row.unique_adjacency_count,
      row.bridge_count, row.temporal_adj_count, row.adjacent_to_stable,
      row.contrast_pair_count, row.standalone_count>>

CountersNeverDecrease ==
    [][\A t \in DOMAIN store.tokens :
          /\ t \in DOMAIN store'.tokens
          /\ \A c \in 1..8 : Counters(store'.tokens[t])[c] >= Counters(store.tokens[t])[c]]_vars

\* The pattern keys of the adjacent pairs of distinct tokens of a message.
AdjacentKeys(tokens) ==
    {generatePatternKey(tokens[i], tokens[i + 1]) :
       i \in {i \in 1..(Len(tokens) - 1) : tokens[i] /= tokens[i + 1]}}

\* C18: when a tick sees an adjacent occurrence of a pair whose row is in
\* tier 'decay', the tick leaves a fresh pair for the key: strength exactly
\* 0.02 and tier 'short', whatever the row held before.
DecayPairReplacedByFresh ==
    [][RanTick(last') =>
         \A n \in DOMAIN store.pairs :
            (/\ store.pairs[n].tier = "decay"
             /\ store.pairs[n].pattern_key \in AdjacentKeys(tokenizeMessage(last'.text)))
            => \E m \in DOMAIN store'.pairs :
                  /\ store'.pairs[m].pattern_key = store.pairs[n].pattern_key
                  /\ store'.pairs[m].strength = REINFORCEMENT_base
                  /\ store'.pairs[m].tier = "short"]_vars

(***************************************************************************)
(* The queries on the pair table and the word graph of the generator       *)
(***************************************************************************)
\* GENERATION_CONFIG.strengthThreshold
strengthThreshold == 100

\* order('strength', { ascending: false }) of the rows with the given ids;
\* rows of equal strength come in table order.
RECURSIVE OrderByStrength(_, _)
OrderByStrength(pairs, ids) ==
    IF ids = {} THEN <<>>
    ELSE LET first == CHOOSE n \in ids :
                         \A m \in ids : \/ pairs[n].strength > pairs[m].strength
                                        \/ pairs[n].strength = pairs[m].strength /\ n <= m
         IN  <<pairs[first]>> \o OrderByStrength(pairs, ids \ {first})

Limit(rows, limit) == SubSeq(rows, 1, Min(limit, Len(rows)))

\* A faulty searchByWord without the filter on the tier.
searchByWordAnyTier(st, word) ==
    LET normalized == toLowerCase(word)
    IN  OrderByStrength(st.pairs,
           {n \in DOMAIN st.pairs : \/ st.pairs[n].token_a = normalized
                                    \/ st.pairs[n].token_b = normalized})

searchByWord(st, word) ==
    LET normalized == toLowerCase(word)
    IN  OrderByStrength(st.pairs,
           {n \in DOMAIN st.pairs : /\ \/ st.pairs[n].token_a = normalized
                                       \/ st.pairs[n].token_b = normalized
                                    /\ st.pairs[n].tier /= "decay"})

\* tier is Null when the option is not given.
getTopPairs(st, limit, tier) ==
    Limit(OrderByStrength(st.pairs,
             {n \in DOMAIN st.pairs : /\ st.pairs[n].tier /= "decay"
                                      /\ tier /= Null => st.pairs[n].tier = tier}),
          limit)

\* Array.prototype.sort with a descending comparator on Key: a stable sort.
SortDescending(rows, Key(_)) ==
    LET n == Len(rows)
        Position(i) ==
            1 + Cardinality({j \in 1..n : \/ Key(rows[j]) > Key(rows[i])
                                          \/ Key(rows[j]) = Key(rows[i]) /\ j < i})
    IN  [p \in 1..n |-> rows[CHOOSE i \in 1..n : Position(i) = p]]

\* The word a row leads to from word.
OtherToken(pair, word) == IF pair.token_a = word THEN pair.token_b ELSE pair.token_a

\* The words the first five rows of a search lead to from currentWord, in
\* the order of the rows.
NextWords(st, currentWord) ==
    LET pairs == Limit(searchByWord(st, currentWord), 5)
    IN  [k \in DOMAIN pairs |-> OtherToken(pairs[k], currentWord)]

\* buildChain: the list chains after the call for a chain that ends in
\* currentWord; buildChains is its loop over the words that follow.  Two
\* chains have the same join('_') when they are the same list of tokens.
RECURSIVE buildChain(_, _, _, _, _, _)
RECURSIVE buildChains(_, _, _, _, _, _)
buildChain(st, currentWord, chain, visited, maxLength, chains) ==
    IF Len(chain) >= maxLength THEN Append(chains, chain)
    ELSE Bind(buildChains(st, NextWords(st, currentWord), chain, visited, maxLength, chains),
              LAMBDA after : IF Len(chain) >= 2 /\ chain \notin Range(after)
                               THEN Append(after, chain)
                               ELSE after)

buildChains(st, words, chain, visited, maxLength, chains) ==
    IF words = <<>> THEN chains
    ELSE LET nextWord == Head(words)
         IN  buildChains(st, Tail(words), chain, visited, maxLength,
                IF nextWord \in visited THEN chains
                ELSE buildChain(st, nextWord, Append(chain, nextWord),
                                visited \cup {nextWord}, maxLength, chains))

getEmergentChains(st, startWord, maxLength) ==
    buildChain(st, startWord, <<startWord>>, {startWord}, maxLength, <<>>)

\* array.filter over a list.
RECURSIVE Filter(_, _)
Filter(rows, keep) ==
    IF rows = <<>> THEN <<>>
    ELSE (IF Head(rows) \in keep THEN <<Head(rows)>> ELSE <<>>) \o Filter(Tail(rows), keep)

\* The first row of every pattern_key, in the order of the list.
RECURSIVE Deduplicate(_, _)
Deduplicate(rows, seen) ==
    IF rows = <<>> THEN <<>>
    ELSE IF Head(rows).pattern_key \in seen THEN Deduplicate(Tail(rows), seen)
    ELSE <<Head(rows)>> \o Deduplicate(Tail(rows), seen \cup {Head(rows).pattern_key})

\* The rows the generator hands to buildWordGraph: the rows found for the
\* first ten keywords, then the top 100 rows, one row per pattern_key.
RECURSIVE RelevantPairs(_, _)
RelevantPairs(st, keywords) ==
    IF keywords = <<>> THEN <<>>
    ELSE searchByWord(st, Head(keywords)) \o RelevantPairs(st, Tail(keywords))

\* A query that fails resolves with data null, which its caller replaces by
\* no rows (data || [], count || 0, if (tokenStats)): the answer of the empty
\* tables.  down holds the names of the calls that fail.
Answering(st, down, call) == IF call \in down THEN EmptyStore ELSE st

GraphPairs(st, keywords, down) ==
    Deduplicate(RelevantPairs(Answering(st, down, "searchByWord"), Limit(keywords, 10))
                   \o getTopPairs(Answering(st, down, "getTopPairs"), 100, Null), {})

\* The words of a list of rows in the order the Map of the graph meets them.
RECURSIVE GraphOrder(_, _)
GraphOrder(pairs, seen) ==
    IF pairs = <<>> THEN <<>>
    ELSE LET a == Head(pairs).token_a
             b == Head(pairs).token_b
             new == (IF a \in seen THEN <<>> ELSE <<a>>)
                       \o (IF b \in seen \cup {a} THEN <<>> ELSE <<b>>)
         IN  new \o GraphOrder(Tail(pairs), seen \cup {a, b})

\* The edges pushed to the node of word, in the order of the rows.
RECURSIVE GraphEdges(_, _, _)
GraphEdges(pairs, word, categoryMap) ==
    IF pairs = <<>> THEN <<>>
    ELSE LET pair == Head(pairs)
             Edge(to) == [word |-> to, weight |-> pair.strength, category |-> categoryMap[to]]
         IN  (IF pair.token_a = word THEN <<Edge(pair.token_b)>> ELSE <<>>)
                \o (IF pair.token_b = word THEN <<Edge(pair.token_a)>> ELSE <<>>)
                \o GraphEdges(Tail(pairs), word, categoryMap)

EdgeWeight(edge) == edge.weight

\* buildWordGraph: a node for every word of a row at or above the strength
\* threshold, with an edge in both directions per row, edges sorted by
\* weight.  tokenStats holds the rows of the batch query of the categories: no
\* row when the query fails.
buildWordGraph(pairs, tokenStats) ==
    LET strong == Filter(pairs, {pair \in Range(pairs) : pair.strength >= strengthThreshold})
        order == GraphOrder(strong, {})
        categoryMap == [word \in Range(order) |->
                          IF word \in DOMAIN tokenStats
                            THEN tokenStats[word].category
                            ELSE "unclassified"]
    IN  [order |-> order,
         node |-> [word \in Range(order) |->
                     [edges |-> SortDescending(GraphEdges(strong, word, categoryMap), EdgeWeight),
                      category |-> categoryMap[word]]]]

\* The active rows that join two words.
Joining(wordA, wordB) ==
    {n \in Active : {store.pairs[n].token_a, store.pairs[n].token_b} = {wordA, wordB}}

Keywords == {<<>>, <<"good">>, <<"now", "bad">>}

TopPairsOptions == {1, 100} \X {Null, "short", "medium", "long", "decay"}

\* C19: no row of tier 'decay' is returned by searchByWord or getTopPairs,
\* every link of a chain of getEmergentChains is a row that is not in tier
\* 'decay', and every edge of the word graph comes from a row that is not in
\* tier 'decay' and has strength >= 0.01.
DecayPairsNeverServed ==
    /\ \A word \in Tokens \cup {"Good"} :
          \A pair \in Range(searchByWord(store, word)) : pair.tier /= "decay"
    /\ \A o \in TopPairsOptions :
          \A pair \in Range(getTopPairs(store, o[1], o[2])) : pair.tier /= "decay"
    /\ \A startWord \in Tokens :
          \A chain \in Range(getEmergentChains(store, startWord, 5)) :
             \A k \in 1..(Len(chain) - 1) : Joining(chain[k], chain[k + 1]) /= {}
    /\ \A keywords \in Keywords :
          LET graph == buildWordGraph(GraphPairs(store, keywords, {}), store.tokens)
          IN  \A from \in DOMAIN graph.node :
                 \A edge \in Range(graph.node[from].edges) :
                    \E n \in Joining(from, edge.word) :
                       /\ store.pairs[n].strength = edge.weight
                       /\ edge.weight >= strengthThreshold

\* A row in tier 'decay' shares a word with a row that is served.
DecayPairBesideServedPair ==
    \E n \in PairIds \ Active :
       /\ store.pairs[n].token_b = "good"
       /\ searchByWord(store, "good") /= <<>>
       /\ getTopPairs(store, 100, Null) /= <<>>
       /\ <<"good", "now">> \in Range(getEmergentChains(store, "good", 5))
       /\ buildWordGraph(GraphPairs(store, <<"good">>, {}), store.tokens).order /= <<>>

\* The rows of a table with a given pattern_key.
RowsWithKey(pairs, patternKey) == {n \in DOMAIN pairs : pairs[n].pattern_key = patternKey}

\* C20: for each adjacent pair of distinct tokens whose pattern_key is absent,
\* a tick inserts exactly one row with strength 0.02, tier 'short', frequency
\* 1, reinforcement_count 1, decay_count 0 and decay_at_message = messageIndex
\* + 50; on an empty store a first message of n tokens with n - 1 distinct
\* adjacent keys reports n - 1 new pairs, none reinforced, and the counter is 1.
AbsentPairsInserted ==
    [][RanTick(last') =>
         LET tokens == tokenizeMessage(last'.text)
             absent == {key \in AdjacentKeys(tokens) : RowsWithKey(store.pairs, key) = {}}
         IN  /\ \A key \in absent :
                  /\ Cardinality(RowsWithKey(store'.pairs, key)) = 1
                  /\ \A n \in RowsWithKey(store'.pairs, key) :
                        /\ store'.pairs[n].strength = REINFORCEMENT_base
                        /\ store'.pairs[n].tier = "short"
                        /\ store'.pairs[n].frequency = 1
                        /\ store'.pairs[n].reinforcement_count = 1
                        /\ store'.pairs[n].decay_count = 0
                        /\ store'.pairs[n].decay_at_message
                             = last'.report.messageIndex + DecayInterval("short")
             /\ (store = EmptyStore /\ Cardinality(AdjacentKeys(tokens)) = Len(tokens) - 1)
                  => /\ last'.report.newPairs = Len(tokens) - 1
                     /\ last'.report.reinforced = 0
                     /\ last'.report.messageIndex = 1
                     /\ store'.counter = 1]_vars

\* A first message of three tokens on the empty store created two pairs.
FirstMessageCreatedPairs ==
    /\ last.text = <<"bad", "good", "now">>
    /\ last.report.newPairs = 2
    /\ store.counter = 1
    /\ Len(store.pairs) = 2

\* The rows of the store a message reinforces: their key is adjacent in it.
Reinforced(st, tokens) ==
    {n \in DOMAIN st.pairs : st.pairs[n].pattern_key \in AdjacentKeys(tokens)}

\* C21: while both tokens of a pair are 'unclassified', a reinforcement adds
\* exactly 0.02 to the pair's strength (modifier 1.0); a second message whose
\* adjacent pairs were all created by the first message on the empty store
\* leaves them at 0.04 and reports them all reinforced and none new.
UnclassifiedReinforcementAddsBase ==
    [][RanTick(last') =>
         LET tokens == tokenizeMessage(last'.text)
         IN  \A n \in Reinforced(store, tokens) :
                (/\ store'.tokens[store.pairs[n].token_a].category = "unclassified"
                 /\ store'.tokens[store.pairs[n].token_b].category = "unclassified")
                => /\ store'.pairs[n].strength
                        = Min(REINFORCEMENT_maxScore,
                              store.pairs[n].strength + REINFORCEMENT_base)
                   /\ (store.counter = 1 /\ store.pairs[n].strength = REINFORCEMENT_base)
                        => /\ store'.pairs[n].strength = 2 * REINFORCEMENT_base
                           /\ last'.report.newPairs
                                = Cardinality(AdjacentKeys(tokens))
                                    - Cardinality(Reinforced(store, tokens))]_vars

\* C22: a pair of the message that is due for decay in the tick (not in tier
\* 'decay', decay_at_message <= messageIndex) is first multiplied by
\* 1 - rate[tier] and then reinforced: its strength after the tick is
\* old * (1 - rate[tier]) + 0.02 * modifier, capped at 1.
DuePairDecayedThenReinforced ==
    [][RanTick(last') =>
         \A n \in Reinforced(store, tokenizeMessage(last'.text)) :
            LET pair == store.pairs[n]
                modifier == Max(PromotionModifier(store'.tokens[pair.token_a].category),
                                PromotionModifier(store'.tokens[pair.token_b].category))
            IN  (pair.tier /= "decay" /\ pair.decay_at_message <= last'.report.messageIndex)
                => store'.pairs[n].strength
                     = Min(REINFORCEMENT_maxScore,
                           (pair.strength * (Unit - DecayRate(pair.tier))) \div Unit
                             + (REINFORCEMENT_base * modifier) \div Unit)]_vars

\* C23: from the empty store, with "good morning" fed on consecutive ticks,
\* the pair is in tier 'long' from the 40th repetition on and its strength
\* is 1.0 from the 50th.
RepeatedPairSaturates ==
    /\ ticks >= 40 => last.pair /= <<>> /\ last.pair[1].tier = "long"
    /\ ticks >= 50 => last.pair /= <<>> /\ last.pair[1].strength = REINFORCEMENT_maxScore

\* The 50th repetition was processed.
FiftiethRepetition ==
    /\ ticks = 50
    /\ last.report.messageIndex = 50
    /\ last.report.reinforced = 1

\* C24: a 'short' pair reinforced once and then decayed once, one short
\* interval later and without further reinforcement, has strength
\* (0.02 * modifier) * (1 - 0.15), where modifier is the promotion modifier of
\* the categories the reinforcement saw.
ReinforceThenDecayRoundTrip ==
    [][RanTick(last') =>
         \A n \in DOMAIN store.pairs :
            LET pair == store.pairs[n]
            IN  (/\ pair.tier = "short"
                 /\ pair.reinforcement_count = 1
                 /\ pair.decay_count = 0
                 /\ store'.pairs[n].decay_count = 1)
                => \E categoryA, categoryB \in Categories :
                      /\ pair.category_pattern = categoryA \o "->" \o categoryB
                      /\ store'.pairs[n].strength
                           = (((REINFORCEMENT_base
                                  * Max(PromotionModifier(categoryA),
                                        PromotionModifier(categoryB))) \div Unit)
                                * (Unit - DecayRate("short"))) \div Unit]_vars

\* The accepted messages with tokens that contained a token, by their index.
MessagesWith(st, t) ==
    {st.purgatory[k].message_index :
       k \in {k \in DOMAIN st.purgatory : st.purgatory[k].word = t}}

\* C25: a tick increases the context_count of every token of its message by
\* exactly 1 and its total_occurrences by the number of its occurrences in the
\* message; after any sequence of ticks context_count is the number of
\* messages that contained the token.
ContextCountedOncePerMessage ==
    [][/\ RanTick(last') =>
            LET tokens == tokenizeMessage(last'.text)
            IN  \A t \in Range(tokens) :
                   LET before == IF t \in DOMAIN store.tokens THEN store.tokens[t]
                                                             ELSE NewTokenStats(t)
                   IN  /\ store'.tokens[t].context_count = before.context_count + 1
                       /\ store'.tokens[t].total_occurrences
                            = before.total_occurrences
                                + Cardinality({k \in DOMAIN tokens : tokens[k] = t})
       /\ \A t \in DOMAIN store'.tokens :
            store'.tokens[t].context_count = Cardinality(MessagesWith(store', t))]_vars

\* A token occurred twice in the message of the tick.
TokenTwiceInMessage ==
    /\ last.text = <<"now", "now">>
    /\ RanTick(last)
    /\ store.tokens["now"].total_occurrences >= 3
    /\ store.tokens["now"].context_count >= 2

\* ---------------------------------------------------------------------------
\* The response generator (src/ariaGenerator.js).  The variable last holds the
\* generator's call: its arguments, the locals of walkGraph and the response.
\* ---------------------------------------------------------------------------

maxWords == 12

minWords == 3

\* GENERATION_CONFIG.categoryTransitions[lastCategory] ||
\* GENERATION_CONFIG.categoryTransitions.unclassified
categoryTransitions(lastCategory) ==
    CASE lastCategory = "stable" -> {"modifier", "transition", "structural"}
      [] lastCategory = "modifier" -> {"stable", "structural"}
      [] lastCategory = "transition" -> {"stable", "modifier", "structural"}
      [] lastCategory = "structural" -> {"stable", "modifier", "transition"}
      [] OTHER -> {"stable", "modifier", "transition", "structural"}

\* node.edges of a word, none for a word that has no node.
EdgesOf(graph, word) == IF word \in DOMAIN graph.node THEN graph.node[word].edges ELSE <<>>

\* graph.get(word)?.category || 'unclassified'
CategoryOf(graph, word) ==
    IF word \in DOMAIN graph.node THEN graph.node[word].category ELSE "unclassified"

\* The first word of the Map, among words, with the most edges and at least
\* one: the loops "if (node.edges.length > best)" over the graph.
MostConnected(graph, words) ==
    LET eligible == {k \in DOMAIN graph.order :
                       graph.order[k] \in words /\ Len(EdgesOf(graph, graph.order[k])) > 0}
        Degree(k) == Len(EdgesOf(graph, graph.order[k]))
    IN  IF eligible = {} THEN Null
        ELSE graph.order[CHOOSE k \in eligible :
                            \A m \in eligible : \/ Degree(k) > Degree(m)
                                                \/ Degree(k) = Degree(m) /\ k <= m]

\* A faulty selectNextWord that does not filter out the visited words.
selectNextWordRevisiting(edges, visited, lastCategory) ==
    LET available == edges
        n == Len(available)
        Base(k) == available[k].weight
                     * (IF available[k].category \in categoryTransitions(lastCategory)
                          THEN 15 ELSE 10)
        Always(k) == Cardinality({j \in 1..n : j /= k /\ Base(j) * 100 >= Base(k) * 125})
        Sometimes(k) == Cardinality({j \in 1..n : j /= k /\ Base(j) * 125 > Base(k) * 100})
        pickIndex == {0, Min(1, n - 1), Min(2, n - 1)}
    IN  {available[k] : k \in {k \in 1..n : \E i \in pickIndex :
                                               Always(k) <= i /\ i <= Sometimes(k)}}

\* selectNextWord: the edges it can return, none (null) when no edge is
\* available.
\* An edge scores weight * (1.5 if its category is preferred) * (1 + r) with a
\* random r in [0, 0.25), and the edge at index 0, 1 or 2 of the scores in
\* descending order is returned: an edge can be at an index that is at least
\* the number of edges always above it and at most the number of edges that
\* can be above it.
selectNextWord(edges, visited, lastCategory) ==
    LET available == Filter(edges, {e \in Range(edges) : e.word \notin visited})
        n == Len(available)
        Base(k) == available[k].weight
                     * (IF available[k].category \in categoryTransitions(lastCategory)
                          THEN 15 ELSE 10)
        Always(k) == Cardinality({j \in 1..n : j /= k /\ Base(j) * 100 >= Base(k) * 125})
        Sometimes(k) == Cardinality({j \in 1..n : j /= k /\ Base(j) * 125 > Base(k) * 100})
        pickIndex == {0, Min(1, n - 1), Min(2, n - 1)}
    IN  {available[k] : k \in {k \in 1..n : \E i \in pickIndex :
                                               Always(k) <= i /\ i <= Sometimes(k)}}

\* findAlternativeStart: a keyword of the graph that has edges, else the
\* stable word with the most edges, else the word with the most edges, never
\* the excluded word, a visited word or a word of retrySet; Null when none.
\* A faulty search that never finds an alternative start.
findAlternativeStartNone(graph, excludeWord, keywords, visited, retrySet) == Null

findAlternativeStart(graph, excludeWord, keywords, visited, retrySet) ==
    LET allowed == Range(graph.order) \ (({excludeWord} \cup visited) \cup retrySet)
        found == {k \in DOMAIN keywords : /\ keywords[k] \in allowed
                                          /\ Len(EdgesOf(graph, keywords[k])) > 0}
        bestStable == MostConnected(graph, {w \in allowed : CategoryOf(graph, w) = "stable"})
    IN  IF found /= {} THEN keywords[CHOOSE k \in found : \A m \in found : k <= m]
        ELSE IF bestStable /= Null THEN bestStable
        ELSE MostConnected(graph, allowed)

\* The locals of a call walkGraph(graph, startWord, maxLength, keywords).
Walk(graph, startWord, maxLength, keywords) ==
    [graph |-> graph, startWord |-> startWord, maxLength |-> maxLength,
     keywords |-> keywords, retried |-> FALSE, retrySet |-> {}, visited |-> {},
     path |-> <<>>, current |-> Null, lastCategory |-> Null, pc |-> "enter"]

\* walkGraph up to its loop: a start word that is not in the graph is
\* replaced once by an alternative start (the recursive call is the last thing
\* the caller does), or is returned alone.
WalkEnter ==
    /\ last.pc = "enter"
    /\ LET g == last.graph
           startWord == last.startWord
           visited == {startWord}
           altStart == findAlternativeStart(g, startWord, last.keywords, visited, last.retrySet)
       IN  last' =
             IF startWord \notin DOMAIN g.node
               THEN IF /\ ~last.retried
                       /\ last.keywords /= <<>>
                       /\ altStart /= Null
                       /\ altStart /= startWord
                       /\ altStart \notin visited
                      THEN [last EXCEPT !.retrySet = @ \cup {altStart},
                                        !.startWord = altStart,
                                        !.retried = TRUE]
                      ELSE [last EXCEPT !.visited = visited,
                                        !.path = <<startWord>>,
                                        !.pc = "done"]
               ELSE [last EXCEPT !.visited = visited,
                                 !.path = <<startWord>>,
                                 !.current = startWord,
                                 !.lastCategory = g.node[startWord].category,
                                 !.pc = "loop"]
    /\ UNCHANGED <<store, hist, ticks, procs, issued>>

\* One test of the loop condition of walkGraph and, when it holds, one
\* iteration of the loop.
WalkStep ==
    /\ last.pc = "loop"
    /\ LET g == last.graph
           current == last.current
           edges == EdgesOf(g, current)
           short == ~last.retried /\ Len(last.path) < minWords
           altStart == findAlternativeStart(g, current, last.keywords, last.visited,
                                            last.retrySet)
           Recover(retried) == [last EXCEPT !.retrySet = @ \cup {altStart},
                                            !.path = Append(@, altStart),
                                            !.visited = @ \cup {altStart},
                                            !.current = altStart,
                                            !.lastCategory = CategoryOf(g, altStart),
                                            !.retried = retried]
           Returned == [last EXCEPT !.pc = "done"]
           Dead == IF short /\ altStart /= Null /\ altStart \notin last.visited
                     THEN Recover(TRUE)
                     ELSE Returned
           candidates == selectNextWord(edges, last.visited, last.lastCategory)
       IN  IF Len(last.path) >= last.maxLength THEN last' = Returned
           ELSE IF edges = <<>>
             THEN last' = IF short /\ altStart /= Null
                            THEN IF altStart \notin last.visited
                                   THEN Recover(last.retried)
                                   ELSE [Returned EXCEPT !.retrySet = @ \cup {altStart}]
                            ELSE Returned
           ELSE IF candidates = {} THEN last' = Dead
           ELSE \E next \in candidates :
                   last' = IF next.weight < strengthThreshold
                             THEN Dead
                             ELSE [last EXCEPT !.path = Append(@, next.word),
                                               !.visited = @ \cup {next.word},
                                               !.lastCategory = next.category,
                                               !.current = next.word]
    /\ UNCHANGED <<store, hist, ticks, procs, issued>>

\* Finite graphs for walkGraph, not only those buildWordGraph makes: any
\* subset of three words as nodes, any set of words as the targets of a node's
\* edges (a word without a node and the node itself included), edges to 'now'
\* below the strength threshold or not, 'good' stable or not.
WalkWords == <<"bad", "good", "now">>

WalkGraphs ==
    LET Node(targets, weakNow, stable, word) ==
            [edges |-> SortDescending(
                          [k \in 1..Len(Filter(WalkWords, targets)) |->
                             LET to == Filter(WalkWords, targets)[k]
                             IN  [word |-> to,
                                  weight |-> IF weakNow /\ to = "now"
                                               THEN strengthThreshold \div 2
                                               ELSE 2 * strengthThreshold,
                                  category |-> IF stable /\ to = "good"
                                                 THEN "stable" ELSE "unclassified"]],
                          EdgeWeight),
             category |-> IF stable /\ word = "good" THEN "stable" ELSE "unclassified"]
    IN  UNION {{[order |-> Filter(WalkWords, nodes),
                 node |-> [word \in nodes |-> Node(targets[word], flags[1], flags[2], word)]] :
                  targets \in [nodes -> SUBSET Range(WalkWords)]} :
                    <<nodes, flags>> \in (SUBSET Range(WalkWords)) \X (BOOLEAN \X BOOLEAN)}

WalkLengths == {2, maxWords}

InitWalk ==
    /\ store = EmptyStore
    /\ hist = <<>>
    /\ \E graph \in WalkGraphs, startWord \in Range(WalkWords) \cup {"morning"},
          maxLength \in WalkLengths, keywords \in Keywords :
          last = Walk(graph, startWord, maxLength, keywords)
    /\ ticks = 0
    /\ procs = [p \in Procs |-> IdleProc]
    /\ issued = <<>>

NextWalk == WalkEnter \/ WalkStep

\* The function runs to its return once called.
SpecWalk == InitWalk /\ [][NextWalk]_vars /\ WF_vars(NextWalk)

\* No token occurs twice in a list.
NoRepeat(path) == \A i, j \in DOMAIN path : path[i] = path[j] => i = j

\* C29: walkGraph terminates for every finite graph, start word and keyword
\* list, dead-end recovery included, and the path it returns has at most
\* maxLength tokens (max_words in the generator) with no token more than once.
WalkGraphTerminates ==
    /\ [](Len(last.path) <= last.maxLength /\ NoRepeat(last.path))
    /\ <>[](last.pc = "done" /\ last.path /= <<>>)

\* A walk that recovered from a dead end returns a path that fills maxLength.
WalkRecoveredAndFull ==
    /\ last.pc = "done"
    /\ last.retrySet /= {}
    /\ last.retried
    /\ Len(last.path) = last.maxLength

\* ---------------------------------------------------------------------------
\* generateResponse.  A string is the list of its characters.
\* ---------------------------------------------------------------------------

Spell(token) ==
    CASE token = "bad" -> <<"b", "a", "d">>
      [] token = "good" -> <<"g", "o", "o", "d">>
      [] token = "goodness" -> <<"g", "o", "o", "d", "n", "e", "s", "s">>
      [] token = "morning" -> <<"m", "o", "r", "n", "i", "n", "g">>
      [] token = "now" -> <<"n", "o", "w">>

\* words.join(' ')
RECURSIVE Join(_)
Join(words) ==
    IF words = <<>> THEN <<>>
    ELSE IF Len(words) = 1 THEN Head(words)
    ELSE Head(words) \o <<" ">> \o Join(Tail(words))

\* string.split(' '): the pieces between the spaces, one piece for a string
\* without a space.
RECURSIVE Split(_, _)
Split(string, piece) ==
    IF string = <<>> THEN <<piece>>
    ELSE IF Head(string) = " " THEN <<piece>> \o Split(Tail(string), <<>>)
    ELSE Split(Tail(string), Append(piece, Head(string)))

\* String.prototype.toLowerCase on one character.
LowerCase(char) ==
    CASE char = "B" -> "b"
      [] char = "G" -> "g"
      [] OTHER -> char

\* string.trim() and replace(/\s+/g, ' ') on a string whose only white space
\* is the space.
RECURSIVE TrimEnd(_)
TrimEnd(string) ==
    IF string /= <<>> /\ string[Len(string)] = " "
      THEN TrimEnd(SubSeq(string, 1, Len(string) - 1))
      ELSE string

RECURSIVE Collapse(_)
Collapse(string) ==
    IF string = <<>> THEN <<>>
    ELSE IF Head(string) = " " /\ (Len(string) = 1 \/ string[2] = " ") THEN Collapse(Tail(string))
    ELSE <<Head(string)>> \o Collapse(Tail(string))

\* a.includes(b) for two words.
Includes(a, b) ==
    \E i \in 1..(Len(Spell(a)) - Len(Spell(b)) + 1) :
       SubSeq(Spell(a), i, i + Len(Spell(b)) - 1) = Spell(b)

\* words.filter((word, i) => i === 0 || word !== words[i - 1])
RECURSIVE RemoveRepeats(_)
RemoveRepeats(words) ==
    IF Len(words) <= 1 THEN words
    ELSE LET front == RemoveRepeats(SubSeq(words, 1, Len(words) - 1))
         IN  IF words[Len(words)] = words[Len(words) - 1]
               THEN front
               ELSE Append(front, words[Len(words)])

\* "..."
Silence == <<".", ".", ".">>

\* The default of options.maxLength.
DefaultMaxLength == 150

\* Lines 671-693: lower case, single spaces, no word equal to the word before
\* it, then the cut at maxLength, moved back to the last space when that space
\* lies beyond 70% of maxLength.
CleanUp(response, maxLength) ==
    LET lower == [k \in DOMAIN response |-> LowerCase(response[k])]
        spaced == LET c == Collapse(lower)
                  IN  TrimEnd(IF c /= <<>> /\ Head(c) = " " THEN Tail(c) ELSE c)
        deduped == Join(RemoveRepeats(Split(spaced, <<>>)))
        cut == TrimEnd(SubSeq(deduped, 1, maxLength))
        spaces == {k \in DOMAIN cut : cut[k] = " "}
        lastSpace == IF spaces = {} THEN NullIndex ELSE MaxOf(spaces) - 1
        final == IF Len(deduped) > maxLength
                   THEN IF lastSpace * 10 > maxLength * 7 THEN SubSeq(cut, 1, lastSpace) ELSE cut
                   ELSE deduped
    IN  IF final = <<>> THEN Silence ELSE final

\* A faulty getMemoryStats that counts the rows of tier 'decay' as short.
getMemoryStatsCountingDecay(st, down) ==
    LET Count(tiers) == Cardinality({n \in DOMAIN Answering(st, down, "getMemoryStats").pairs :
                                       Answering(st, down, "getMemoryStats").pairs[n].tier
                                          \in tiers})
    IN  [threw |-> FALSE,
         tiers |-> [short |-> Count({"short", "decay"}), medium |-> Count({"medium"}),
                    long |-> Count({"long"})],
         decay |-> Count({"decay"})]

\* A faulty getMemoryStats that throws the error of a failed query.
getMemoryStatsThrowing(st, down) ==
    LET Count(tier) == Cardinality({n \in DOMAIN st.pairs : st.pairs[n].tier = tier})
    IN  [threw |-> "getMemoryStats" \in down,
         tiers |-> [short |-> Count("short"), medium |-> Count("medium"), long |-> Count("long")],
         decay |-> Count("decay")]

\* getMemoryStats: the counts of the rows per tier.  A count that fails is
\* null and is replaced by 0; no failure is thrown.
getMemoryStats(st, down) ==
    LET Count(tier) == Cardinality({n \in DOMAIN Answering(st, down, "getMemoryStats").pairs :
                                      Answering(st, down, "getMemoryStats").pairs[n].tier = tier})
    IN  [threw |-> FALSE,
         tiers |-> [short |-> Count("short"), medium |-> Count("medium"), long |-> Count("long")],
         decay |-> Count("decay")]

extractWords(text) == SelectTokens(text)

\* discoverEmergentPhrases: the chains of at least two words found from the
\* first five keywords, the three strongest (strength 1 / length).
RECURSIVE KeywordChains(_, _)
KeywordChains(st, keywords) ==
    IF keywords = <<>> THEN <<>>
    ELSE LET chains == getEmergentChains(st, Head(keywords), 5)
         IN  Filter(chains, {chain \in Range(chains) : Len(chain) >= 2})
                \o KeywordChains(st, Tail(keywords))

ShorterFirst(chain) == 0 - Len(chain)

discoverEmergentPhrases(st, keywords) ==
    Limit(SortDescending(KeywordChains(st, Limit(keywords, 5)), ShorterFirst), 3)

\* Method 1 (lines 438-455): the words of the phrases that do not overlap
\* the words already used by more than half.
RECURSIVE EmergentFragments(_, _)
EmergentFragments(phrases, usedWords) ==
    IF phrases = <<>> THEN <<>>
    ELSE LET words == Head(phrases)
             overlap == Cardinality({k \in DOMAIN words : words[k] \in usedWords})
             used == usedWords \cup Range(words)
         IN  IF 2 * overlap > Len(words) THEN EmergentFragments(Tail(phrases), usedWords)
             ELSE words \o (IF Cardinality(used) >= maxWords THEN <<>>
                            ELSE EmergentFragments(Tail(phrases), used))

\* GENERATION_CONFIG.startingWeights[category] || 0.5, in tenths.
startingWeights(category) ==
    CASE category = "stable" -> 15
      [] category = "transition" -> 10
      [] category = "modifier" -> 7
      [] category = "structural" -> 3
      [] OTHER -> 5

\* findBestStartWord: the words it can return.  A keyword of the graph scores
\* weight * (1 + min(1, edges / 10)) * (1 + r) with a random r in [0, 0.3) and
\* the best score wins; without a keyword in the graph the stable word with
\* the most edges, else the word with the most edges.
findBestStartWord(keywords, graph) ==
    LET keywordsInGraph == Filter(keywords, DOMAIN graph.node)
        Base(word) == startingWeights(graph.node[word].category)
                         * (10 + Min(10, Len(graph.node[word].edges)))
        bestStable == MostConnected(graph, {w \in DOMAIN graph.node :
                                              graph.node[w].category = "stable"})
    IN  IF keywordsInGraph /= <<>>
          THEN {k \in Range(keywordsInGraph) :
                  \A j \in Range(keywordsInGraph) : j = k \/ Base(k) * 13 > Base(j) * 10}
        ELSE IF bestStable /= Null THEN {bestStable}
        ELSE IF MostConnected(graph, DOMAIN graph.node) /= Null
          THEN {MostConnected(graph, DOMAIN graph.node)}
        ELSE {graph.order[1]}

\* getTokensByCategory: the rows of a category by descending
\* total_occurrences.
getTokensByCategory(st, category, limit) ==
    LET rows == [k \in 1..Len(Filter(TokenOrder, {t \in DOMAIN st.tokens :
                                                     st.tokens[t].category = category})) |->
                   st.tokens[Filter(TokenOrder, {t \in DOMAIN st.tokens :
                                                    st.tokens[t].category = category})[k]]]
        TotalOccurrences(row) == row.total_occurrences
    IN  Limit(SortDescending(rows, TotalOccurrences), limit)

\* Method 3 (lines 522-631): the fragments composed around a stable token.
\* The three booleans are the draws of Math.random.
ComposeByCategory(st, keywords, down, skipModifier, insertStructural, reverseModifierOrder) ==
    LET stableTokens == getTokensByCategory(Answering(st, down, "getTokensByCategory"),
                                            "stable", 5)
        relevantStable == Filter(stableTokens,
                             {t \in Range(stableTokens) :
                                \E k \in Range(keywords) :
                                   Includes(t.token, k) \/ Includes(k, t.token)})
        baseToken == IF relevantStable /= <<>> THEN relevantStable[1] ELSE stableTokens[1]
        pairs == searchByWord(Answering(st, down, "searchByWord"), baseToken.token)
        tokenStats == Answering(st, down, "tokenStats").tokens
        Other(p) == OtherToken(p, baseToken.token)
        Of(category) == Filter(pairs, {p \in Range(pairs) :
                                         /\ Other(p) \in DOMAIN tokenStats
                                         /\ tokenStats[Other(p)].category = category})
        modifier == IF ~skipModifier /\ Of("modifier") /= <<>>
                      THEN <<Other(Of("modifier")[1])>> ELSE <<>>
        transition == IF Of("transition") /= <<>>
                        THEN <<Other(Of("transition")[1])>> ELSE <<>>
        structural == IF insertStructural /\ Of("structural") /= <<>>
                        THEN <<Other(Of("structural")[1])>> ELSE <<>>
    IN  IF stableTokens = <<>> THEN <<>>
        ELSE (IF reverseModifierOrder THEN <<>> ELSE modifier)
                \o <<baseToken.token>>
                \o (IF reverseModifierOrder THEN modifier ELSE <<>>)
                \o (IF transition /= <<>> THEN structural ELSE <<>>)
                \o transition

\* Method 4 (lines 642-656): the words of up to three of the top five rows,
\* the rows related to the keywords when there are any.
RECURSIVE PairWords(_)
PairWords(pairs) ==
    IF pairs = <<>> THEN <<>>
    ELSE <<Head(pairs).token_a, Head(pairs).token_b>> \o PairWords(Tail(pairs))

RawPairs(st, keywords, down) ==
    LET topPairs == getTopPairs(Answering(st, down, "getTopPairs"), 5, Null)
        relevantPairs == Filter(topPairs,
                            {p \in Range(topPairs) :
                               \E k \in Range(keywords) :
                                  \/ Includes(p.token_a, k) \/ Includes(p.token_b, k)
                                  \/ Includes(k, p.token_a) \/ Includes(k, p.token_b)})
    IN  PairWords(Limit(IF relevantPairs /= <<>> THEN relevantPairs ELSE topPairs, 3))

\* The words of a response as one string.
Say(words) == Join([k \in DOMAIN words |-> Spell(words[k])])

\* A call generateResponse(userMessage, {maxLength}) before its first line,
\* while the calls named in down fail.  stages holds the methods entered,
\* produced those that assigned the response.
Generation(userMessage, maxLength, down) ==
    [Walk([order |-> <<>>, node |-> <<>>], Null, maxWords, <<>>) EXCEPT !.pc = "call"]
       @@ [userMessage |-> userMessage, options |-> [maxLength |-> maxLength],
           down |-> down, response |-> <<>>, stages |-> {}, produced |-> {},
           result |-> <<>>]

\* Lines 402-503: the memory check, the keywords, method 1 and, when its
\* response has fewer than minWords words, the graph and the start word of
\* method 2.  A failure thrown by getMemoryStats is not caught.
GenerateBegin ==
    /\ last.pc = "call"
    /\ LET down == last.down
           stats == getMemoryStats(store, down)
           totalPairs == stats.tiers.short + stats.tiers.medium + stats.tiers.long
           keywords == extractWords(last.userMessage)
           emergent == EmergentFragments(
                          discoverEmergentPhrases(Answering(store, down, "searchByWord"),
                                                  keywords), {})
           uniquePairs == GraphPairs(store, keywords, down)
           graph == buildWordGraph(uniquePairs, Answering(store, down, "tokenStats").tokens)
           first == [last EXCEPT !.keywords = keywords,
                                 !.response = emergent,
                                 !.stages = {"emergent"},
                                 !.produced = IF emergent /= <<>> THEN {"emergent"} ELSE {},
                                 !.pc = "compose"]
       IN  IF stats.threw THEN last' = [last EXCEPT !.pc = "raised"]
           ELSE IF totalPairs = 0
             THEN last' = [last EXCEPT !.result = Silence, !.pc = "returned"]
           ELSE IF Len(emergent) >= minWords THEN last' = first
           ELSE IF uniquePairs /= <<>> /\ graph.order /= <<>>
             THEN \E startWord \in findBestStartWord(keywords, graph) :
                     last' = [first EXCEPT !.stages = @ \cup {"walk"},
                                           !.graph = graph,
                                           !.startWord = startWord,
                                           !.pc = "enter"]
           ELSE last' = [first EXCEPT !.stages = @ \cup {"walk"}]
    /\ UNCHANGED <<store, hist, ticks, procs, issued>>

\* Lines 505-693 for a call whose walk gave the response second (walked: the
\* path was long enough to be used), whose method 3 composes composed and whose
\* method 4 finds raw: a method runs while the response is shorter than its
\* limit and assigns what it has when that is not empty; then the clean-up.
Respond(call, walked, second, composed, raw) ==
    LET Short(response, least) == response = <<>> \/ Len(response) < least
        third == IF Short(second, minWords) /\ composed /= <<>> THEN composed ELSE second
        fourth == IF Short(third, 2) /\ raw /= <<>> THEN raw ELSE third
    IN  [call EXCEPT
           !.response = fourth,
           !.stages = (@ \cup (IF Short(second, minWords) THEN {"compose"} ELSE {}))
                         \cup (IF Short(third, 2) THEN {"raw"} ELSE {}),
           !.produced = ((@ \cup (IF walked THEN {"walk"} ELSE {}))
                           \cup (IF third /= second THEN {"compose"} ELSE {}))
                           \cup (IF fourth /= third THEN {"raw"} ELSE {}),
           !.result = IF fourth = <<>> THEN Silence
                      ELSE CleanUp(Say(fourth), call.options.maxLength),
           !.pc = "returned"]

\* The rest of generateResponse after method 1 and the walk: the path of the
\* walk is the response when it has minWords words.  The three booleans are
\* the draws of Math.random in method 3.
GenerateFinish ==
    /\ last.pc \in {"done", "compose"}
    /\ \E skipModifier, insertStructural, reverseModifierOrder \in BOOLEAN :
          last' = Respond(last,
                          last.pc = "done" /\ Len(last.path) >= minWords,
                          IF last.pc = "done" /\ Len(last.path) >= minWords
                            THEN last.path ELSE last.response,
                          ComposeByCategory(store, last.keywords, last.down, skipModifier,
                                            insertStructural, reverseModifierOrder),
                          RawPairs(store, last.keywords, last.down))
    /\ UNCHANGED <<store, hist, ticks, procs, issued>>

\* Stores for the generator: those of Histories and stores whose rows join
\* 'good' to a word that begins with it, to 'morning', and three words.
GenHistories ==
    Histories \cup {<<Run(<<"good", "goodness">>, 1)>>,
                    <<Run(GoodMorning, 1)>>,
                    <<Run(GoodBad, 3), Run(<<"good", "now", "morning">>, 2)>>}

GenTexts == {<<"Good">>, <<"now", "bad">>, <<"!">>, <<"goodness">>, <<"morning", "good">>}

GenLengths == {9, DefaultMaxLength}

StoreCalls == {"getMemoryStats", "searchByWord", "getTopPairs", "tokenStats",
               "getTokensByCategory"}

Outages == {{}, StoreCalls, StoreCalls \ {"getMemoryStats"}} \cup {{call} : call \in StoreCalls}

InitGen ==
    /\ \E history \in GenHistories :
         LET w == WorldAfter(EmptyWorld, history)
         IN  /\ store = w.st
             /\ hist = w.hist
    /\ \E userMessage \in GenTexts, maxLength \in GenLengths, down \in Outages :
          last = Generation(userMessage, maxLength, down)
    /\ ticks = 0
    /\ procs = [p \in Procs |-> IdleProc]
    /\ issued = <<>>

NextGen == GenerateBegin \/ WalkEnter \/ WalkStep \/ GenerateFinish

SpecGen == InitGen /\ [][NextGen]_vars

\* The words of a returned string.
WordsOf(string) == Split(string, <<>>)

\* A store without a row in tier short, medium or long.
NoLivePair == \A n \in DOMAIN store.pairs : store.pairs[n].tier = "decay"

\* C26: whenever the store holds no pair in tier short, medium or long,
\* generateResponse returns "..." for every input, without entering any of
\* its generation methods.
SilentOnEmptyMemory ==
    last.pc \notin {"call"} /\ NoLivePair =>
       /\ last.pc = "returned"
       /\ last.result = Silence
       /\ last.stages = {}

\* A call with keywords returned on a store whose only rows are in tier
\* 'decay' and whose tokens are classified.
SilentBesideDecayedPairs ==
    /\ last.pc = "returned"
    /\ NoLivePair
    /\ store.pairs /= <<>>
    /\ \E t \in DOMAIN store.tokens : store.tokens[t].category = "stable"
    /\ extractWords(last.userMessage) /= <<>>
    /\ last.down = {}

\* C27: every returned string other than "..." has at least minWords words.
ResponseHasMinWords ==
    last.pc = "returned" /\ last.result /= Silence => Len(WordsOf(last.result)) >= minWords

\* C28: every returned string is in lower case, has at most maxLength
\* characters and has no word equal to the word immediately before it.
ResponseClean ==
    last.pc = "returned" =>
       /\ \A k \in DOMAIN last.result : LowerCase(last.result[k]) = last.result[k]
       /\ Len(last.result) <= last.options.maxLength
       /\ \A i \in 2..Len(WordsOf(last.result)) :
             WordsOf(last.result)[i] /= WordsOf(last.result)[i - 1]

\* C30: generateResponse never raises: whichever store calls fail, it
\* returns a string, and the string is "..." when no method produced output.
NeverRaises ==
    /\ last.pc /= "raised"
    /\ last.pc = "returned" =>
          /\ last.result /= <<>>
          /\ last.produced = {} => last.result = Silence

\* A call counted the rows, entered its methods while every other store call
\* failed, and returned "...".
ReturnedDuringOutage ==
    /\ last.pc = "returned"
    /\ last.down = StoreCalls \ {"getMemoryStats"}
    /\ last.stages /= {}
    /\ last.produced = {}
    /\ last.result = Silence

\* ---------------------------------------------------------------------------
\* Position samples beyond the read limit: a store that holds 99 samples per
\* token, then messages that put the tokens at other positions.
\* ---------------------------------------------------------------------------

MaxShifts == 3

ShiftTexts == {GoodBad, <<"bad", "good">>, <<"now", "good">>}

ShiftEnvs == {WarmEnv, Env(FALSE, FALSE, FALSE, FALSE)}

InitShift ==
    /\ LET w == WorldAfter(EmptyWorld, <<Run(GoodBad, POSITION_LIMIT - 1)>>)
       IN  /\ store = w.st
           /\ hist = w.hist
    /\ last = NoCall
    /\ ticks = 0
    /\ procs = [p \in Procs |-> IdleProc]
    /\ issued = <<>>

ShiftMessage ==
    /\ ticks < MaxShifts
    /\ \E text \in ShiftTexts, env \in ShiftEnvs :
         LET w == Step([st |-> store, hist |-> hist], text, "u1", env)
         IN  /\ store' = w.st
             /\ hist' = w.hist
             /\ last' = [text |-> text, userId |-> "u1", env |-> env,
                         report |-> w.r.report,
                         pair |-> PairOf(w.st, text),
                         mirror |-> <<>>]
    /\ ticks' = ticks + 1
    /\ UNCHANGED <<procs, issued>>

NextShift == ShiftMessage

SpecShift == InitShift /\ [][NextShift]_vars

\* C31: the positional variance stored for a token of the message is the
\* variance of its min(100, number of samples) most recent position samples.
VarianceOfMostRecentSamples ==
    \A t \in Range(tokenizeMessage(last.text)) :
       store.tokens[t].positional_variance
          = calculatePositionalVariance(LastN(store.positions[t], POSITION_LIMIT))

(***************************************************************************)
(* Reinforcement of an existing pair                                       *)
(***************************************************************************)
\* C32: a tick k that reinforces an existing pair adds
\* 0.02 * max(modifier[category of token_a], modifier[category of token_b]),
\* the categories being the ones stored after the tick's own scoring, caps
\* the strength at 1, adds 1 to frequency and to reinforcement_count, and
\* sets decay_at_message = k + interval(new tier), last_seen_message_index = k.
ReinforcementAddsByFreshCategories ==
    [][RanTick(last') =>
         \A n \in Reinforced(store, tokenizeMessage(last'.text)) :
            LET pair == store.pairs[n]
                k == last'.report.messageIndex
                modifier == Max(PromotionModifier(store'.tokens[pair.token_a].category),
                                PromotionModifier(store'.tokens[pair.token_b].category))
            IN  /\ store'.pairs[n].strength
                     = Min(REINFORCEMENT_maxScore,
                           pair.strength + (REINFORCEMENT_base * modifier) \div Unit)
                /\ store'.pairs[n].frequency = pair.frequency + 1
                /\ store'.pairs[n].reinforcement_count = pair.reinforcement_count + 1
                /\ store'.pairs[n].decay_at_message
                     = k + DecayInterval(store'.pairs[n].tier)
                /\ store'.pairs[n].last_seen_message_index = k]_vars

\* A tick reinforced a pair whose tokens carry different modifiers, under
\* categories that are not the ones of the pair's former category_pattern.
ReinforcedUnderNewCategories ==
    /\ RanTick(last)
    /\ last.report.reinforced = 1
    /\ last.pair /= <<>>
    /\ PromotionModifier(store.tokens[last.pair[1].token_a].category)
         /= PromotionModifier(store.tokens[last.pair[1].token_b].category)
    /\ last.pair[1].reinforcement_count > 1
    /\ last.pair[1].last_seen_message_index = last.report.messageIndex

(***************************************************************************)
(* assignCategory on its own                                               *)
(***************************************************************************)
\* Scores around CATEGORY_THRESHOLD and occurrence counts around
\* MIN_OCCURRENCES_FOR_CATEGORY.
CategoryScores == {0, CATEGORY_THRESHOLD, CATEGORY_THRESHOLD + 1, 4000}

CategoryOccurrences == {MIN_OCCURRENCES_FOR_CATEGORY - 1, MIN_OCCURRENCES_FOR_CATEGORY, 3}

InitCategory ==
    /\ store = EmptyWorld.st
    /\ hist = EmptyWorld.hist
    /\ \E occurrences \in CategoryOccurrences,
          stability, transition, dependency, structural \in CategoryScores :
         last = [stats |-> [total_occurrences |-> occurrences,
                            stability_score |-> stability,
                            transition_score |-> transition,
                            dependency_score |-> dependency,
                            structural_score |-> structural],
                 category |-> Null,
                 pc |-> "call"]
    /\ ticks = 0
    /\ procs = [p \in Procs |-> IdleProc]
    /\ issued = <<>>

AssignCategory ==
    /\ last.pc = "call"
    /\ last' = [last EXCEPT !.category = assignCategory(last.stats), !.pc = "done"]
    /\ UNCHANGED <<store, hist, ticks, procs, issued>>

NextCategory == AssignCategory

SpecCategory == InitCategory /\ [][NextCategory]_vars

\* The categories in the order of their priority, each with its score.
CategoryPriority(stats) ==
    << <<"stable", stats.stability_score>>,
       <<"transition", stats.transition_score>>,
       <<"modifier", stats.dependency_score>>,
       <<"structural", stats.structural_score>> >>

ScoringTexts ==
    {<<"good", "bad", "now", "good">>, <<"bad", "now", "morning", "bad">>, GoodBad}

InitScoring ==
    /\ store = EmptyStore
    /\ hist = <<>>
    /\ last = [tokens |-> <<>>, used |-> 0, varianceMap |-> <<>>]
    /\ ticks = 0
    /\ procs = [p \in Procs |-> IdleProc]
    /\ issued = <<>>

\* processMessage is called, takes its index and runs processTokenStatistics.
ScoringBegin(p) ==
    /\ At(p, "idle")
    /\ ticks < MaxCalls
    /\ \E text \in ScoringTexts :
          LET r == getAndIncrementMessageIndex(store, FALSE, FALSE)
              tokens == tokenizeMessage(text)
          IN  /\ store' = processTokenStatistics(
                              wordsToPurgatory(r.st, tokens, r.index), tokens, r.index,
                              Len(tokens) = 1, WarmEnv.expired1)
              /\ Goto(p, "scoring", [IdleProc EXCEPT !.text = text, !.tokens = tokens,
                                                     !.messageIndex = r.index])
              /\ issued' = Append(issued, r.index)
    /\ ticks' = ticks + 1
    /\ UNCHANGED <<hist, last>>

\* getGlobalStats and the first pass of calculateScoresAndCategories.
ScoringRead(p) ==
    /\ At(p, "scoring")
    /\ LET proc == procs[p]
           g == getGlobalStats(store, WarmEnv.expired2)
       IN  /\ store' = g.st
           /\ Goto(p, "scoringWrite",
                   [proc EXCEPT !.globalStats = g.data,
                                !.varianceMap = VarianceMap(g.st, proc.tokens)])
    /\ UNCHANGED <<hist, last, ticks, issued>>

\* The write of the raised maximum and the second pass, then the pair engine
\* and the decay of the tick, and its return.
ScoringWrite(p) ==
    /\ At(p, "scoringWrite")
    /\ LET proc == procs[p]
           s2 == ScoresFromPassA(store, proc.tokens, proc.globalStats, proc.varianceMap)
           s3 == processWordPairs(s2.st, proc.tokens, proc.messageIndex)
           s4 == processDecay(s3.st, proc.messageIndex, {})
       IN  /\ store' = s4.st
           /\ last' = [tokens |-> proc.tokens,
                       used |-> ScoringGlobalStats(proc.globalStats, proc.varianceMap)
                                  .max_positional_variance,
                       varianceMap |-> proc.varianceMap]
    /\ Goto(p, "idle", IdleProc)
    /\ UNCHANGED <<hist, ticks, issued>>

NextScoring ==
    \E p \in Procs :
       \/ ScoringBegin(p)
       \/ ScoringRead(p)
       \/ ScoringWrite(p)

SpecScoring == InitScoring /\ [][NextScoring]_vars

\* C34: the max_positional_variance the second pass of a tick computes with
\* is at least the variance the first pass of the tick found for every token
\* of the message, and the stored max_positional_variance never decreases.
MaxVarianceCoversAndNeverDecreases ==
    /\ [](\A t \in DOMAIN last.varianceMap : last.used >= last.varianceMap[t])
    /\ [][store'.global.max_positional_variance
            >= store.global.max_positional_variance]_vars

(***************************************************************************)
(* Dead-end recovery of the walk inside generateResponse                   *)
(***************************************************************************)
\* The nodes an alternative start may be taken from.
Unvisited(call) == Range(call.graph.order) \ (call.visited \cup call.retrySet)

ChainWords == Tokens \cup {"Good"}

ChainLengths == {1, 2, 3, 5}

InitChains ==
    /\ \E history \in GenHistories :
         LET w == WorldAfter(EmptyWorld, history)
         IN  /\ store = w.st
             /\ hist = w.hist
    /\ \E startWord \in ChainWords, maxLength \in ChainLengths :
          last = [startWord |-> startWord, maxLength |-> maxLength, chains |-> <<>>,
                  pc |-> "call"]
    /\ ticks = 0
    /\ procs = [p \in Procs |-> IdleProc]
    /\ issued = <<>>

GetEmergentChains ==
    /\ last.pc = "call"
    /\ last' = [last EXCEPT !.chains = getEmergentChains(store, last.startWord,
                                                         last.maxLength),
                            !.pc = "done"]
    /\ UNCHANGED <<store, hist, ticks, procs, issued>>

NextChains == GetEmergentChains

SpecChains == InitChains /\ [][NextChains]_vars

\* C36: for every start word and every max_len, every chain getEmergentChains
\* returns starts with the start word, has between 2 and max_len tokens, no
\* token twice, and each two consecutive tokens joined by a stored pair that
\* is not in tier 'decay'; no chain is returned twice.
ChainsWellFormed ==
    last.pc = "done" =>
      /\ \A k \in DOMAIN last.chains :
            LET chain == last.chains[k]
            IN  /\ chain[1] = last.startWord
                /\ Len(chain) >= 2
                /\ Len(chain) <= last.maxLength
                /\ NoRepeat(chain)
                /\ \A i \in 1..(Len(chain) - 1) : Joining(chain[i], chain[i + 1]) /= {}
      /\ NoRepeat(last.chains)

\* C37: a tick whose message has a and b adjacent never lowers the strength
\* of the pair a_b: the pair it reinforces is not decayed by the decay step
\* of the same tick.
AdjacentPairNeverWeakened ==
    [][RanTick(last') =>
         \A n \in Reinforced(store, tokenizeMessage(last'.text)) :
            /\ store'.pairs[n].strength >= store.pairs[n].strength
            /\ store'.pairs[n].decay_count = store.pairs[n].decay_count]_vars

\* A tick reinforced a 'medium' pair at the very index at which the pair was
\* due for decay, and did not decay it.
ReinforcedWhenDue ==
    /\ RanTick(last)
    /\ last.report.reinforced = 1
    /\ last.pair /= <<>>
    /\ last.pair[1].tier = "medium"
    /\ last.pair[1].decay_count = 0
    /\ last.pair[1].last_seen_message_index = last.report.messageIndex
    /\ last.pair[1].decay_at_message
         = last.report.messageIndex + DecayInterval("medium")
    /\ last.report.messageIndex = 12 + DecayInterval("medium")

(***************************************************************************)
(* The per-tier-table correlator (second module of ariaCorrelator.js):     *)
(* correlations live in aria_short, aria_medium, aria_long and aria_decay  *)
(* and move between them by delete and insert.  Here store is              *)
(* [counter, nextId, tables], tables maps 'short', 'medium', 'long' and    *)
(* 'decay' to the set of rows of the table; hist is the set of pattern     *)
(* keys that were ever stored; last counts what the last tick did.         *)
(***************************************************************************)
MaxLegacyTicks == 5

LegacyDecayMin == 500

LegacyTiers == <<"short", "medium", "long">>

scoreProximity(distance) ==
    IF distance = 1 THEN Unit
    ELSE IF distance = 2 THEN 8000
    ELSE IF distance <= 4 THEN 5000
    ELSE IF distance <= 7 THEN 3000
    ELSE 1000

calculateInitialScore(distance) == scoreProximity(distance) \div 10

\* getTierForScore of this module: no score gives 'decay'.
LegacyTierForScore(score) ==
    IF score >= MEDIUM_MAX THEN "long"
    ELSE IF score >= SHORT_MAX THEN "medium"
    ELSE "short"

\* .single(): the row when the select matches exactly one, no data otherwise.
Single(rows) == IF Cardinality(rows) = 1 THEN <<CHOOSE row \in rows : TRUE>> ELSE <<>>

\* The row found and its currentTier, or nothing: 'short', 'medium', 'long'
\* are searched in this order, then aria_decay.
findExistingCorrelation(tables, patternKey) ==
    LET In(tier) == Single({row \in tables[tier] : row.pattern_key = patternKey})
        found == {k \in 1..3 : In(LegacyTiers[k]) /= <<>>}
        first == CHOOSE k \in found : \A m \in found : k <= m
    IN  IF found /= {}
          THEN <<[row |-> In(LegacyTiers[first])[1], currentTier |-> LegacyTiers[first]]>>
        ELSE IF In("decay") /= <<>> THEN <<[row |-> In("decay")[1], currentTier |-> "decay"]>>
        ELSE <<>>

\* insert into aria_short, aria_medium or aria_long: id is the primary key
\* and pattern_key is UNIQUE, a row that breaks either is refused.
LegacyInsert(tables, tier, newRecord) ==
    IF \E row \in tables[tier] : \/ row.id = newRecord.id
                                 \/ row.pattern_key = newRecord.pattern_key
      THEN tables
      ELSE [tables EXCEPT ![tier] = @ \cup {newRecord}]

LegacyDelete(tables, tier, id) ==
    [tables EXCEPT ![tier] = {row \in @ : row.id /= id}]

\* A faulty move that does not delete the row from the table it leaves.
moveCorrelationNoDelete(tables, correlation, fromTier, toTier) ==
    LegacyInsert(tables, toTier,
                 [id |-> correlation.id,
                  pattern_key |-> correlation.pattern_key,
                  word1 |-> correlation.word1,
                  word2 |-> correlation.word2,
                  correlation_score |-> correlation.correlation_score,
                  reinforcement_count |-> correlation.reinforcement_count,
                  decay_count |-> correlation.decay_count,
                  decay_at_message |-> correlation.decay_at_message,
                  last_seen_message_index |-> correlation.last_seen_message_index])

moveCorrelation(tables, correlation, fromTier, toTier) ==
    LegacyInsert(LegacyDelete(tables, fromTier, correlation.id), toTier,
                 [id |-> correlation.id,
                  pattern_key |-> correlation.pattern_key,
                  word1 |-> correlation.word1,
                  word2 |-> correlation.word2,
                  correlation_score |-> correlation.correlation_score,
                  reinforcement_count |-> correlation.reinforcement_count,
                  decay_count |-> correlation.decay_count,
                  decay_at_message |-> correlation.decay_at_message,
                  last_seen_message_index |-> correlation.last_seen_message_index])

\* One pair (i, j) of runCorrelator; acc = [db, newCorrelations, reinforced,
\* promoted, resurrected].  The update of a row of aria_decay names columns
\* the table does not have and changes nothing; the move that follows writes
\* the new values.
CorrelatePair(acc, wordA, wordB, distance, messageIndex) ==
    IF wordA = wordB THEN acc
    ELSE LET patternKey == generatePatternKey(wordA, wordB)
             tables == acc.db.tables
             existing == findExistingCorrelation(tables, patternKey)
         IN  IF existing /= <<>>
               THEN LET row == existing[1].row
                        currentTier == existing[1].currentTier
                        addScore == calculateInitialScore(distance)
                        newScore == Min(Unit, row.correlation_score + addScore)
                        newTier == LegacyTierForScore(newScore)
                        updated == [id |-> row.id,
                                    pattern_key |-> row.pattern_key,
                                    word1 |-> row.word1,
                                    word2 |-> row.word2,
                                    correlation_score |-> newScore,
                                    reinforcement_count |-> row.reinforcement_count + 1,
                                    decay_count |-> row.decay_count,
                                    decay_at_message |-> messageIndex + DecayInterval(newTier),
                                    last_seen_message_index |-> messageIndex]
                        written == IF currentTier = "decay" THEN tables
                                   ELSE [tables EXCEPT ![currentTier] =
                                           {IF r.id = row.id THEN updated ELSE r : r \in @}]
                        moved == IF currentTier = "decay" \/ newTier /= currentTier
                                   THEN moveCorrelation(written, updated, currentTier, newTier)
                                   ELSE written
                    IN  [acc EXCEPT
                           !.db.tables = moved,
                           !.reinforced = @ + 1,
                           !.promoted = @ + (IF currentTier = "decay" \/ newTier /= currentTier
                                               THEN 1 ELSE 0),
                           !.resurrected = @ + (IF currentTier = "decay" THEN 1 ELSE 0)]
               ELSE LET initialScore == calculateInitialScore(distance)
                        tier == LegacyTierForScore(initialScore)
                        sorted == SortPair(wordA, wordB)
                        newCorr == [id |-> acc.db.nextId,
                                    pattern_key |-> patternKey,
                                    word1 |-> sorted[1],
                                    word2 |-> sorted[2],
                                    correlation_score |-> initialScore,
                                    reinforcement_count |-> 1,
                                    decay_count |-> 0,
                                    decay_at_message |-> messageIndex + DecayInterval(tier),
                                    last_seen_message_index |-> messageIndex]
                        inserted == LegacyInsert(tables, tier, newCorr)
                    IN  [acc EXCEPT
                           !.db.tables = inserted,
                           !.db.nextId = @ + 1,
                           !.newCorrelations = @ + (IF inserted /= tables THEN 1 ELSE 0)]

RECURSIVE CorrelateLoop(_, _, _, _, _)
CorrelateLoop(acc, words, i, j, messageIndex) ==
    IF i > Len(words) THEN acc
    ELSE IF j > Len(words) THEN CorrelateLoop(acc, words, i + 1, i + 2, messageIndex)
    ELSE Bind(CorrelatePair(acc, words[i], words[j], j - i, messageIndex),
              LAMBDA next : CorrelateLoop(next, words, i, j + 1, messageIndex))

runCorrelator(db, words, messageIndex) ==
    LET start == [db |-> db, newCorrelations |-> 0, reinforced |-> 0, promoted |-> 0,
                  resurrected |-> 0]
    IN  IF Len(words) < 2 THEN start ELSE CorrelateLoop(start, words, 1, 2, messageIndex)

\* One row of dueForDecay in checkDecay; acc = [tables, decayed, demoted,
\* toGraveyard].
DecayCorrelation(acc, corr, tier, currentMessageIndex) ==
    LET newScore == (corr.correlation_score * (Unit - DecayRate(tier))) \div Unit
        newDecayCount == corr.decay_count + 1
        newTier == LegacyTierForScore(newScore)
    IN  IF newScore < LegacyDecayMin
          THEN [acc EXCEPT
                  !.tables = [LegacyDelete(acc.tables, tier, corr.id) EXCEPT !["decay"] =
                                IF \E row \in @ : row.id = corr.id THEN @
                                ELSE @ \cup {[id |-> corr.id,
                                              pattern_key |-> corr.pattern_key,
                                              word1 |-> corr.word1,
                                              word2 |-> corr.word2,
                                              correlation_score |-> newScore,
                                              reinforcement_count |-> corr.reinforcement_count,
                                              decay_count |-> newDecayCount,
                                              decayed_from |-> tier]}],
                  !.toGraveyard = @ + 1]
        ELSE IF newTier /= tier
          THEN [acc EXCEPT
                  !.tables = moveCorrelation(
                                 acc.tables,
                                 [corr EXCEPT !.correlation_score = newScore,
                                              !.decay_count = newDecayCount,
                                              !.decay_at_message =
                                                  currentMessageIndex + DecayInterval(newTier)],
                                 tier, newTier),
                  !.demoted = @ + 1]
        ELSE [acc EXCEPT
                !.tables[tier] =
                    {IF row.id = corr.id
                       THEN [row EXCEPT !.correlation_score = newScore,
                                        !.decay_count = newDecayCount,
                                        !.decay_at_message =
                                            currentMessageIndex + DecayInterval(tier)]
                       ELSE row : row \in @},
                !.decayed = @ + 1]

RECURSIVE DecayRows(_, _, _, _)
DecayRows(acc, dueForDecay, tier, currentMessageIndex) ==
    IF dueForDecay = {} THEN acc
    ELSE LET corr == CHOOSE row \in dueForDecay : TRUE
         IN  Bind(DecayCorrelation(acc, corr, tier, currentMessageIndex),
                  LAMBDA next : DecayRows(next, dueForDecay \ {corr}, tier,
                                          currentMessageIndex))

RECURSIVE DecayTiers(_, _, _)
DecayTiers(acc, k, currentMessageIndex) ==
    IF k > Len(LegacyTiers) THEN acc
    ELSE LET tier == LegacyTiers[k]
             dueForDecay == {row \in acc.tables[tier] :
                               row.decay_at_message <= currentMessageIndex}
         IN  Bind(DecayRows(acc, dueForDecay, tier, currentMessageIndex),
                  LAMBDA next : DecayTiers(next, k + 1, currentMessageIndex))

checkDecay(tables, currentMessageIndex) ==
    DecayTiers([tables |-> tables, decayed |-> 0, demoted |-> 0, toGraveyard |-> 0], 1,
               currentMessageIndex)

LegacyTables == {"short", "medium", "long", "decay"}

\* The pattern keys stored in a table.
StoredKeys(tables, table) == {row.pattern_key : row \in tables[table]}

LegacyTexts ==
    {GoodBad, <<"good", "now", "morning", "bad">>, <<"now", "morning">>}

\* One-word messages in a row: processMessage takes an index for each and
\* returns before the correlator and the decay check.
QuietRuns == {DecayInterval("short"), DecayInterval("medium")}

NoLegacyTick ==
    [promoted |-> 0, resurrected |-> 0, demoted |-> 0, toGraveyard |-> 0, decayed |-> 0]

InitLegacy ==
    /\ store = [counter |-> 0, nextId |-> 1, tables |-> [table \in LegacyTables |-> {}]]
    /\ hist = {}
    /\ last = NoLegacyTick
    /\ ticks = 0
    /\ procs = [p \in Procs |-> IdleProc]
    /\ issued = <<>>

\* processMessage of this module for a message of two words or more.
LegacyMessage ==
    /\ ticks < MaxLegacyTicks
    /\ \E words \in LegacyTexts :
         LET messageIndex == store.counter + 1
             corrResult == runCorrelator([store EXCEPT !.counter = messageIndex], words,
                                         messageIndex)
             decayResult == checkDecay(corrResult.db.tables, messageIndex)
         IN  /\ store' = [corrResult.db EXCEPT !.tables = decayResult.tables]
             /\ hist' = hist \cup UNION {StoredKeys(decayResult.tables, table) :
                                           table \in LegacyTables}
                             \cup UNION {StoredKeys(corrResult.db.tables, table) :
                                           table \in LegacyTables}
             /\ last' = [promoted |-> corrResult.promoted,
                         resurrected |-> corrResult.resurrected,
                         demoted |-> decayResult.demoted,
                         toGraveyard |-> decayResult.toGraveyard,
                         decayed |-> decayResult.decayed]
    /\ ticks' = ticks + 1
    /\ UNCHANGED <<procs, issued>>

LegacyQuiet ==
    /\ ticks < MaxLegacyTicks
    /\ \E times \in QuietRuns : store' = [store EXCEPT !.counter = @ + times]
    /\ last' = NoLegacyTick
    /\ ticks' = ticks + 1
    /\ UNCHANGED <<hist, procs, issued>>

NextLegacy == LegacyMessage \/ LegacyQuiet

SpecLegacy == InitLegacy /\ [][NextLegacy]_vars

\* C38: after any sequence of ticks of the per-tier-table correlator every
\* pattern_key that was ever created is stored in exactly one of aria_short,
\* aria_medium, aria_long and aria_decay, in one row: no promotion, demotion,
\* burial or resurrection loses a correlation or leaves it in two tables.
EveryKeyInExactlyOneTable ==
    \A patternKey \in hist :
       /\ Cardinality({table \in LegacyTables :
                         patternKey \in StoredKeys(store.tables, table)}) = 1
       /\ \A table \in LegacyTables :
             Cardinality({row \in store.tables[table] : row.pattern_key = patternKey}) <= 1

\* A correlation buried in aria_decay was seen again and moved back to a tier
\* table.
CorrelationResurrected ==
    /\ last.resurrected > 0
    /\ store.tables["decay"] = {}
    /\ \E row \in store.tables["short"] : row.decay_count > 0

(***************************************************************************)
(* server.js: the poll of aria_messages and the message handler.  Here     *)
(* store is [messages, recentlyProcessed, lastProcessedId,                 *)
(* lastProcessedTime]; a row of messages is [id, bot_id, user_email,       *)
(* content, by], created_at being the place in the table and by the writer *)
(* of the row (not a column); procs holds the polls in flight; issued      *)
(* lists the ids processMessage was called with and hist the ids           *)
(* generateResponse was called for.                                        *)
(***************************************************************************)
MaxPolls == 7

RECENT_MAX == 100

RECENT_EVICT == 50

POLL_LIMIT == 10

ARIA_id == "aria"

UserMessage(id, content) ==
    [id |-> id, bot_id |-> Null, user_email |-> "u1@example.org", content |-> content,
     by |-> "user"]

\* A message of another bot, and a message that came without user_email.
BotMessage(id, content) ==
    [id |-> id, bot_id |-> "gpt", user_email |-> Null, content |-> content, by |-> "bot"]

Anonymous(id, content) == [UserMessage(id, content) EXCEPT !.user_email = Null]

\* A faulty insert that leaves bot_id empty.
AriaMessageUnmarked(id, responseText) ==
    [id |-> id, bot_id |-> Null, user_email |-> Null, content |-> responseText,
     by |-> ARIA_id]

\* The row sendAriaResponse inserts.
AriaMessage(id, responseText) ==
    [id |-> id, bot_id |-> ARIA_id, user_email |-> Null, content |-> responseText,
     by |-> ARIA_id]

sendAriaResponse(st, responseText) ==
    [st EXCEPT !.messages = Append(@, AriaMessage(Len(@) + 1, responseText))]

\* The contents are 'plain', 'mention' (a mention is in the text or a
\* command begins it) and 'question' (a '?' is in the text and
\* Math.random() < 0.3 decides):
\* the outcomes shouldAriaRespond can have.
shouldAriaRespond(content, userEmail) ==
    IF userEmail = Null \/ userEmail = ARIA_id THEN {FALSE}
    ELSE IF content = "mention" THEN {TRUE}
    ELSE IF content = "question" THEN {TRUE, FALSE}
    ELSE {FALSE}

\* recentlyProcessed.add(messageId) and the eviction of the oldest ids.
Remember(recentlyProcessed, messageId) ==
    LET added == Append(recentlyProcessed, messageId)
    IN  IF Len(added) > RECENT_MAX
          THEN SubSeq(added, RECENT_EVICT + 1, Len(added))
          ELSE added

\* The rows the select of pollForMessages returns.
PollQuery(st) ==
    LET rows == {n \in DOMAIN st.messages : /\ st.messages[n].bot_id = Null
                                            /\ n > st.lastProcessedTime}
        RECURSIVE First(_, _)
        First(n, left) ==
            IF left = 0 \/ n > Len(st.messages) THEN <<>>
            ELSE IF n \in rows THEN <<st.messages[n]>> \o First(n + 1, left - 1)
            ELSE First(n + 1, left)
    IN  First(1, POLL_LIMIT)

IdlePoll == [pc |-> "idle", messages |-> <<>>, k |-> 1]

\* The messages the polls before have handled one after another.
Settled == RECENT_EVICT - 2

\* The table when the polls of the model begin: a few messages of every
\* kind, none handled yet; and a run of messages longer than
\* recentlyProcessed may grow, the first Settled of them handled by earlier
\* polls that did not overlap, the next one a mention.
Inboxes ==
    {[messages |-> <<UserMessage(1, "mention"), BotMessage(2, "mention"),
                     UserMessage(3, "question"), Anonymous(4, "mention")>>,
      recentlyProcessed |-> <<>>, lastProcessedId |-> 0, lastProcessedTime |-> 0],
     [messages |-> [n \in 1..(RECENT_MAX + 1) |->
                       UserMessage(n, IF n = Settled + 1 THEN "mention" ELSE "plain")],
      recentlyProcessed |-> [n \in 1..Settled |-> n],
      lastProcessedId |-> Settled, lastProcessedTime |-> Settled]}

InitServer ==
    /\ store \in Inboxes
    /\ hist = <<>>
    /\ last = NoCall
    /\ ticks = 0
    /\ procs = [p \in Procs |-> IdlePoll]
    /\ issued = <<>>

\* lastProcessedId = msg.id; lastProcessedTime = msg.created_at.
Handled(st, msg) ==
    [st EXCEPT !.lastProcessedId = msg.id, !.lastProcessedTime = msg.id]

\* The loop of pollForMessages from its k-th message on, with
\* handleNewMessage up to the call of processMessage: what runs without a
\* network call in between.  called holds the id processMessage is called
\* with, if the loop has come to one.
RECURSIVE pollForMessages(_, _, _)
pollForMessages(st, messages, k) ==
    IF k > Len(messages) THEN [store |-> st, proc |-> IdlePoll, called |-> <<>>]
    ELSE LET msg == messages[k]
             recent == Remember(st.recentlyProcessed, msg.id)
         IN  IF msg.id = st.lastProcessedId
               THEN pollForMessages(st, messages, k + 1)
             ELSE IF msg.id \in Range(st.recentlyProcessed)
               THEN pollForMessages(Handled(st, msg), messages, k + 1)
             ELSE IF msg.bot_id /= Null
               THEN pollForMessages(Handled([st EXCEPT !.recentlyProcessed = recent], msg),
                                    messages, k + 1)
             ELSE [store |-> [st EXCEPT !.recentlyProcessed = recent],
                   proc |-> [pc |-> "learning", messages |-> messages, k |-> k],
                   called |-> <<msg.id>>]

\* The state after the loop of poll p has run on from its k-th message.
Resume(p, st, messages, k) ==
    \E r \in {pollForMessages(st, messages, k)} :
       /\ store' = r.store
       /\ procs' = [procs EXCEPT ![p] = r.proc]
       /\ issued' = issued \o r.called

\* setInterval starts pollForMessages, whether or not the poll before has
\* returned.  The poll takes the first free slot; the polls of the model
\* overlap only a poll that waits for generateResponse.
PollBegin(p) ==
    /\ At(p, "idle")
    /\ p = "p1" \/ ~At("p1", "idle")
    /\ \A q \in Procs \ {p} : At(q, "idle") \/ At(q, "responding")
    /\ ticks < MaxPolls
    /\ Resume(p, store, PollQuery(store), 1)
    /\ ticks' = ticks + 1
    /\ UNCHANGED <<hist, last>>

\* processMessage has returned or thrown; shouldAriaRespond decides.
Learned(p) ==
    /\ At(p, "learning")
    /\ LET msg == procs[p].messages[procs[p].k]
       IN  \E respond \in shouldAriaRespond(msg.content, msg.user_email) :
              IF respond
                THEN /\ procs' = [procs EXCEPT ![p].pc = "responding"]
                     /\ hist' = Append(hist, msg.id)
                     /\ UNCHANGED <<store, issued>>
                ELSE /\ Resume(p, Handled(store, msg), procs[p].messages, procs[p].k + 1)
                     /\ UNCHANGED hist
    /\ UNCHANGED <<last, ticks>>

\* generateResponse has returned and its text is sent, or it has thrown and
\* "..." is sent.
Responded(p) ==
    /\ At(p, "responding")
    /\ \E responseText \in {"response", "..."} :
          Resume(p, Handled(sendAriaResponse(store, responseText),
                            procs[p].messages[procs[p].k]),
                 procs[p].messages, procs[p].k + 1)
    /\ UNCHANGED <<hist, last, ticks>>

NextServer ==
    \E p \in Procs :
       \/ PollBegin(p)
       \/ Learned(p)
       \/ Responded(p)

SpecServer == InitServer /\ [][NextServer]_vars

\* C39: processMessage and generateResponse are called only for messages
\* without bot_id, every message ARIA writes carries bot_id = 'aria', and no
\* message ARIA wrote is ever learned from or answered.
BotOutputNeverHandled ==
    /\ \A k \in DOMAIN issued : store.messages[issued[k]].bot_id = Null
    /\ \A k \in DOMAIN hist : store.messages[hist[k]].bot_id = Null
    /\ \A n \in DOMAIN store.messages :
          store.messages[n].by = ARIA_id
            => /\ store.messages[n].bot_id = ARIA_id
               /\ n \notin Range(issued) \cup Range(hist)

\* ARIA has answered, a poll has run after the answer was written, and the
\* inbox held a message of another bot.
PolledAfterAnswer ==
    /\ \E n \in DOMAIN store.messages :
          /\ store.messages[n].by = ARIA_id
          /\ store.lastProcessedTime < n
    /\ \E n \in DOMAIN store.messages : store.messages[n].by = "bot"
    /\ \A p \in Procs : At(p, "idle")
    /\ ticks >= 3
    /\ Len(hist) >= 2

\* C40: whatever the interleaving of the polls, processMessage is called at
\* most once for a message id, also after recentlyProcessed has evicted ids
\* and after an older poll has set lastProcessedTime.
ProcessedAtMostOnce == NoRepeat(issued)

====
